---- MODULE Spec2Model ----
(***************************************************************************)
(* Capture-to-analysis pipeline of web-camera-kit: the media capture hook  *)
(* (useMediaCapture), the analysis result parser (analysisParser) and the  *)
(* inference client (geminiService), over a durable media store.           *)
(*                                                                         *)
(* Optional values (a field that may be undefined) are sequences of length *)
(* 0 or 1: <<>> is "absent", <<v>> is "present with value v".              *)
(* A text is a sequence of tokens; each token stands for a character or a  *)
(* lexeme that the parser's regular expressions treat as a unit.           *)
(*                                                                         *)
(* The hook runs on one event loop: an action is what runs between two     *)
(* suspension points. A store operation takes effect at the moment its     *)
(* promise settles, so the operation's effect and the continuation of the  *)
(* caller form one action; the store serves operations in any order.       *)
(***************************************************************************)
EXTENDS Integers, Sequences, FiniteSets, TLC

\* ------------------------------------------------------------------ bounds
\* Records found in the store when the session starts have ids 1..MaxLegacy.
MaxLegacy == 2
\* Records the session may create have ids MaxLegacy+1..MaxLegacy+MaxNew.
MaxNew == 1

LegacyIds == 1..MaxLegacy
NewIds == (MaxLegacy + 1)..(MaxLegacy + MaxNew)
Ids == LegacyIds \cup NewIds

None == <<>>
Some(v) == <<v>>

\* ------------------------------------------------------------------ texts
\* Tokens: "ws" a blank, "nl" a newline, "fence" a triple backtick, "json" the
\* bare word json, "lb" and "rb" the braces, "txt" a word of prose. A member
\* token stands for one complete  "key": value  pair of a JSON object (with its
\* separating comma); the ":null" variants carry a falsy value. "insights:str"
\* opens the member insights up to and including the opening quote of a string
\* it holds (as in  "insights": {"strengths": ["), the tokens after it are the
\* content of the string, and "endstr" closes the string and the member.
\* "null" and "num" are the JSON literal null and a number.
Keys == {"summary", "quality", "timeline", "insights"}
TruthyMembers == Keys
FalsyMembers == {"summary:null", "timeline:null", "insights:null"}
Members == TruthyMembers \cup FalsyMembers

KeyOf(tok) ==
  CASE tok = "summary:null" -> "summary"
    [] tok = "timeline:null" -> "timeline"
    [] tok = "insights:null" -> "insights"
    [] OTHER -> tok

ValOf(tok) == IF tok \in FalsyMembers THEN "null" ELSE "val"

IsSpace(tok) == tok \in {"ws", "nl"}

Drop(s, n) == SubSeq(s, n + 1, Len(s))

\* String.prototype.trim
RECURSIVE TrimLeft(_)
TrimLeft(s) ==
  IF s # <<>> /\ IsSpace(s[1]) THEN TrimLeft(Tail(s)) ELSE s

RECURSIVE TrimRight(_)
TrimRight(s) ==
  IF s # <<>> /\ IsSpace(s[Len(s)]) THEN TrimRight(SubSeq(s, 1, Len(s) - 1)) ELSE s

Trim(s) == TrimRight(TrimLeft(s))

\* replace(/```json\n?|\n?```/g, ''): at each position the first alternative
\* is tried before the second; matches are removed left to right.
RECURSIVE StripJsonFences(_)
StripJsonFences(s) ==
  IF s = <<>> THEN <<>>
  ELSE IF Len(s) >= 2 /\ s[1] = "fence" /\ s[2] = "json"
    THEN IF Len(s) >= 3 /\ s[3] = "nl"
           THEN StripJsonFences(Drop(s, 3))
           ELSE StripJsonFences(Drop(s, 2))
  ELSE IF Len(s) >= 2 /\ s[1] = "nl" /\ s[2] = "fence"
    THEN StripJsonFences(Drop(s, 2))
  ELSE IF s[1] = "fence"
    THEN StripJsonFences(Drop(s, 1))
  ELSE <<s[1]>> \o StripJsonFences(Tail(s))

\* replace(/^```\n?|\n?```$/g, ''): a fence at the very start (with the newline
\* after it) and a fence at the very end (with the newline before it).
StripEdgeFences(s) ==
  LET a == IF s # <<>> /\ s[1] = "fence"
             THEN IF Len(s) >= 2 /\ s[2] = "nl" THEN Drop(s, 2) ELSE Drop(s, 1)
             ELSE s
  IN IF a # <<>> /\ a[Len(a)] = "fence"
       THEN IF Len(a) >= 2 /\ a[Len(a) - 1] = "nl"
              THEN SubSeq(a, 1, Len(a) - 2)
              ELSE SubSeq(a, 1, Len(a) - 1)
       ELSE a

\* replace(/^json\s*/, '')
StripLeadingTag(s) ==
  IF s # <<>> /\ s[1] = "json" THEN TrimLeft(Tail(s)) ELSE s

\* match(/\{[\s\S]*\}/): the span from the first "{" to the last "}" after it.
BraceSpan(s) ==
  LET lbs == {i \in 1..Len(s) : s[i] = "lb"}
      rbs == {i \in 1..Len(s) : s[i] = "rb"}
  IN IF lbs = {} \/ rbs = {} THEN None
     ELSE LET first == CHOOSE i \in lbs : \A j \in lbs : i <= j
              last == CHOOSE i \in rbs : \A j \in rbs : j <= i
          IN IF first < last THEN Some(SubSeq(s, first, last)) ELSE None

\* A decoded object: the value under each key. A value is a sequence:
\* <<"absent">> (no such key), <<"null">> (a falsy value), <<"val">> (an object,
\* array or other truthy value), or <<"str">> followed by the content of the
\* string the value holds.
EmptyObject == [k \in Keys |-> <<"absent">>]

\* JSON.parse of the members between the braces, from position i on. Blanks
\* between members are skipped; a later member with the same key replaces an
\* earlier one; a string runs to the next "endstr" and may not hold a newline;
\* any other token (prose, a fence, a stray brace) is a syntax error.
RECURSIVE DecodeFrom(_, _, _)
DecodeFrom(t, i, obj) ==
  IF i > Len(t) THEN [ok |-> TRUE, value |-> obj]
  ELSE IF IsSpace(t[i]) THEN DecodeFrom(t, i + 1, obj)
  ELSE IF t[i] \in Members
    THEN DecodeFrom(t, i + 1, [obj EXCEPT ![KeyOf(t[i])] = <<ValOf(t[i])>>])
  ELSE IF t[i] = "insights:str"
    THEN LET ends == {j \in (i + 1)..Len(t) : t[j] = "endstr"}
         IN IF ends = {} THEN [ok |-> FALSE, value |-> obj]
            ELSE LET e == CHOOSE j \in ends : \A k \in ends : j <= k
                     content == SubSeq(t, i + 1, e - 1)
                 IN IF \E j \in 1..Len(content) : content[j] = "nl"
                      THEN [ok |-> FALSE, value |-> obj]
                      ELSE DecodeFrom(t, e + 1,
                             [obj EXCEPT !["insights"] = <<"str">> \o content])
  ELSE [ok |-> FALSE, value |-> obj]

\* JSON.parse: blanks around the value are skipped. The text "{" members "}"
\* decodes to an object, the literal null to null, a number to a value that is
\* not an object; any other text makes JSON.parse throw.
JsonParse(s) ==
  LET t == Trim(s)
  IN IF t = <<"null">> THEN [kind |-> "null", value |-> EmptyObject]
     ELSE IF t = <<"num">> THEN [kind |-> "scalar", value |-> EmptyObject]
     ELSE IF Len(t) >= 2 /\ t[1] = "lb" /\ t[Len(t)] = "rb"
       THEN LET d == DecodeFrom(SubSeq(t, 2, Len(t) - 1), 1, EmptyObject)
            IN [kind |-> IF d.ok THEN "object" ELSE "throw", value |-> d.value]
     ELSE [kind |-> "throw", value |-> EmptyObject]

\* A JavaScript truthiness test of a property of the decoded object.
Truthy(obj, k) == obj[k][1] \notin {"absent", "null"}

HasAnalysisShape(obj) ==
  Truthy(obj, "summary") /\ Truthy(obj, "timeline") /\ Truthy(obj, "insights")

\* The text parseAnalysisResult hands to JSON.parse: trimmed, fences and a
\* leading json tag removed, narrowed to the brace span when there is one.
Candidate(result) ==
  LET trimmed == Trim(result)
      unfenced == StripLeadingTag(StripEdgeFences(StripJsonFences(trimmed)))
      span == BraceSpan(unfenced)
  IN IF span # None THEN span[1] ELSE unfenced

\* The try block of parseAnalysisResult: it returns the decoded object or
\* null, or throws (JSON.parse's SyntaxError; the TypeError of reading a
\* property of null). A number has no such properties: they read as undefined.
TryParse(result) ==
  LET parsedData == JsonParse(Candidate(result))
  IN IF parsedData.kind \in {"throw", "null"} THEN [threw |-> TRUE, value |-> None]
     ELSE IF parsedData.kind = "object" /\ HasAnalysisShape(parsedData.value)
       THEN [threw |-> FALSE, value |-> Some(parsedData.value)]
     ELSE [threw |-> FALSE, value |-> None]

\* Responses the inference provider may give.
FencedReport ==
  <<"fence", "json", "nl", "lb", "summary", "quality", "timeline", "insights", "rb", "nl", "fence">>
PartialReport == <<"txt", "lb", "summary", "quality", "rb">>
EmptyText == <<>>
Texts == {FencedReport, PartialReport, EmptyText}

\* What the try block yields for each of these responses, computed once.
ParsedTexts == [t \in Texts |-> TryParse(t).value]

\* parseAnalysisResult: the decoded object, or absent (null); the catch block
\* turns whatever the try block throws into null.
parseAnalysisResult(result) ==
  IF result \in Texts THEN ParsedTexts[result] ELSE TryParse(result).value


\* ------------------------------------------------------------------ texts in use
\* Error messages the inference provider may fail with.
ErrorMessages == {"quota exceeded"}

PushupPrompt == "Analyze this pushup video ..."
AnalysisFailed == "Analysis failed"
ProcessingFailed == "Processing failed"

\* ------------------------------------------------------------------ texts given to the parser
\* An embedded body has up to MaxMembers members.
MaxMembers == 3

\* The members an object is written with: a plain member, or the member
\* insights holding a string, without and with a triple backtick in it.
StrPlain == <<"insights:str", "txt", "endstr">>
StrFence == <<"insights:str", "txt", "fence", "endstr">>
Units == {<<m>> : m \in Members} \cup {StrPlain, StrFence}

RECURSIVE UnitLists(_)
UnitLists(n) ==
  IF n = 0 THEN {<<>>}
  ELSE LET shorter == UnitLists(n - 1)
       IN shorter \cup {l \o u : l \in shorter, u \in Units}

Objects == {<<"lb">> \o l \o <<"rb">> : l \in UnitLists(MaxMembers)}
PrettyReport ==
  <<"lb", "nl", "ws", "summary", "nl", "ws", "timeline", "nl", "ws", "insights", "nl", "rb">>
NonObjects == {<<"null">>, <<"num">>, <<"txt">>, <<>>}
Bodies == Objects \cup NonObjects \cup {PrettyReport}

\* What a response may put around the body: nothing, blanks, a fenced block
\* with or without the json tag, a bare json tag, prose, prose around a fenced
\* block, and prose that itself holds braces.
Wrapper(before, after) == [before |-> before, after |-> after]
Wrappers ==
  { Wrapper(<<>>, <<>>),
    Wrapper(<<"ws", "nl">>, <<"nl", "ws">>),
    Wrapper(<<"fence", "json", "nl">>, <<"nl", "fence">>),
    Wrapper(<<"fence", "nl">>, <<"nl", "fence">>),
    Wrapper(<<"json", "ws">>, <<>>),
    Wrapper(<<"txt", "ws">>, <<"ws", "txt">>),
    Wrapper(<<"txt", "nl", "fence", "json", "nl">>, <<"nl", "fence", "nl", "txt">>),
    Wrapper(<<"txt", "lb", "txt", "rb", "ws">>, <<>>),
    Wrapper(<<>>, <<"ws", "txt", "rb">>) }

IdleParse ==
  [body |-> <<>>, before |-> <<>>, after |-> <<>>, pc |-> "ready", value |-> None,
   between |-> None, again |-> None]

TextOf(p) == p.before \o p.body \o p.after

\* ------------------------------------------------------------------ timelines
\* A generated timeline has up to MaxEvents events.
MaxEvents == 2

\* Times are in seconds. Events are stamped with one of EventTimes; the video
\* is VideoDuration long and reports a currentTime out of VideoTimes.
EventTimes == {0, 1, 3}
VideoTimes == {0, 1, 2, 3, 4}
VideoDuration == 4
RepNumbers == 1..(MaxEvents + 1)

Event(repNumber, timestampSeconds) ==
  [repNumber |-> repNumber, timestampSeconds |-> timestampSeconds]

RECURSIVE TimelinesUpTo(_)
TimelinesUpTo(n) ==
  IF n = 0 THEN {<<>>}
  ELSE LET shorter == TimelinesUpTo(n - 1)
       IN shorter \cup {Append(tl, Event(r, t)) : tl \in shorter, r \in RepNumbers, t \in EventTimes}

\* A timeline with a gap in its rep numbers: rep 3 is missing.
GapTimeline == <<Event(1, 0), Event(2, 1), Event(4, 3)>>
Timelines == TimelinesUpTo(MaxEvents) \cup {GapTimeline}

\* HTMLMediaElement.duration: a number of seconds, or NaN while the metadata
\* is not loaded. A comparison with NaN is false.
Seconds(n) == [nan |-> FALSE, value |-> n]
NotANumber == [nan |-> TRUE, value |-> 0]
Durations == {Seconds(VideoDuration), NotANumber}
LessThan(t, d) == ~d.nan /\ t < d.value

\* insights.bestRep.timestampSeconds, when there is a best rep.
BestRepTimes == {None, Some(0), Some(4)}

\* The least element of a non-empty set of positions.
First(S) == CHOOSE i \in S : \A j \in S : i <= j

\* A variant that takes the entry after rep in the timeline as the next rep.
NextTimeByPosition(timeline, rep, duration) ==
  LET at == {j \in 1..Len(timeline) : timeline[j] = rep}
  IN IF at # {} /\ First(at) < Len(timeline)
       THEN Seconds(timeline[First(at) + 1].timestampSeconds)
       ELSE duration

\* nextRep ? nextRep.timestampSeconds : video.duration, where nextRep is the
\* first entry whose repNumber is rep.repNumber + 1.
NextTime(timeline, rep, duration) ==
  LET next == {j \in 1..Len(timeline) : timeline[j].repNumber = rep.repNumber + 1}
  IN IF next # {} THEN Seconds(timeline[First(next)].timestampSeconds) ELSE duration

\* A variant that only tests the upper bound.
InRepUpToNext(timeline, rep, currentTime, duration) ==
  LessThan(currentTime, NextTime(timeline, rep, duration))

\* currentTime >= repTime && currentTime < nextTime
InRep(timeline, rep, currentTime, duration) ==
  /\ currentTime >= rep.timestampSeconds
  /\ LessThan(currentTime, NextTime(timeline, rep, duration))

\* analysis.timeline.find(...): the rep number of the first entry the test
\* holds for, or null.
ActiveRepAt(timeline, currentTime, duration) ==
  LET hits == {i \in 1..Len(timeline) : InRep(timeline, timeline[i], currentTime, duration)}
  IN IF hits = {} THEN None ELSE Some(timeline[First(hits)].repNumber)

IdleOverlay ==
  [timeline |-> <<>>, duration |-> NotANumber, bestRep |-> None, isVisible |-> FALSE,
   videoTime |-> 0, currentTime |-> 0, activeRep |-> None, used |-> None]

\* ------------------------------------------------------------------ the camera preview
MaxStreams == 2      \* streams the Webcam element reports as started
MaxRecorders == 3    \* MediaRecorder objects the setup effect creates
MaxRecordings == 2   \* recordings started
MaxChunks == 2       \* dataavailable events with data per recording
MaxRetryCount == 4   \* the largest retryCount followed

Modes == {"photo", "video"}

\* selectedDeviceId: nothing selected, or the first video input found.
NoDevice == ""
DefaultDevice == "videoinput-0"

\* handleUserMediaError retries while retryCount is below this.
RetryLimit == 3

\* new MediaRecorder(processedStream, options) and the chunks array its
\* handlers close over. stopped: stop() was called and the stop event has not
\* been delivered yet; recording: the number of the recording it last started.
NewRecorder == [state |-> "inactive", chunks |-> <<>>, stopped |-> FALSE, recording |-> 0]

\* The component after its first render, before any effect has run. The
\* processing canvas, cameraError and videoDevices are left out: neither the
\* status nor the recorder reads them.
IdleCamera ==
  [isMobile |-> FALSE, mode |-> "photo", facing |-> "user", selectedDeviceId |-> NoDevice,
   hidden |-> FALSE,
   cameraStatus |-> "idle", mediaStream |-> None, isRecording |-> FALSE,
   isCapturing |-> FALSE, retryCount |-> 0,
   mediaRecorderRef |-> None, recorders |-> <<>>,
   running |-> {}, streams |-> 0, requesting |-> FALSE,
   recorderDeps |-> None, initDeps |-> None,
   retryTimer |-> FALSE, visibleTimer |-> FALSE,
   recordings |-> 0, captures |-> <<>>]

\* mediaRecorderRef.current.stop(), where there is a recorder and it is
\* recording: stopCurrentCameraStream, the cleanup of the MediaRecorder setup
\* effect and stopRecording all make this call.
StopCurrentRecorder(c) ==
  IF c.mediaRecorderRef # None /\ c.recorders[c.mediaRecorderRef[1]].state = "recording"
  THEN [c EXCEPT !.recorders[c.mediaRecorderRef[1]].state = "inactive",
                 !.recorders[c.mediaRecorderRef[1]].stopped = TRUE]
  ELSE c

\* stopCurrentCameraStream: the tracks of mediaStream stop, a recording recorder
\* is stopped, the recorder reference, mediaStream and isRecording are reset.
stopCurrentCameraStream(c) ==
  [StopCurrentRecorder(c) EXCEPT
     !.running = c.running \ {c.mediaStream[i] : i \in DOMAIN c.mediaStream},
     !.mediaRecorderRef = None,
     !.mediaStream = None,
     !.isRecording = FALSE]

\* The Webcam element's key is made of facing, selectedDeviceId and
\* retryCount: a render from c to d that changes it remounts the element,
\* which then requests a stream again.
Remounting(c, d) ==
  [d EXCEPT !.requesting =
              \/ d.requesting
              \/ <<d.facing, d.selectedDeviceId, d.retryCount>>
                   # <<c.facing, c.selectedDeviceId, c.retryCount>>]

\* The dependencies of the MediaRecorder setup effect that can change
\* (createProcessingCanvas changes with facing).
RecorderDeps(c) == <<c.mediaStream, c.mode, c.facing>>

\* The dependencies of the camera initialization effect
\* (stopCurrentCameraStream changes with mediaStream).
InitDeps(c) == <<c.facing, c.selectedDeviceId, c.mediaStream>>

\* The MediaRecorder setup effect: over a stream in video mode, a new recorder
\* with an empty chunks array is stored in mediaRecorderRef.
RecorderSetup(c) ==
  IF c.mediaStream # None /\ c.mode = "video"
  THEN [c EXCEPT !.recorders = Append(c.recorders, NewRecorder),
                 !.mediaRecorderRef = Some(Len(c.recorders) + 1)]
  ELSE c

\* The camera initialization effect.
InitializationEffect(c) ==
  [stopCurrentCameraStream(c) EXCEPT !.cameraStatus = "initializing"]

\* The passive effects of one commit: the cleanups of the effects whose
\* dependencies changed (the setup effect's stops a recording recorder, the
\* initialization effect's clears the retry timeout), then their bodies, in
\* the order of declaration.
EffectsDue(c) ==
  \/ c.recorderDeps # Some(RecorderDeps(c))
  \/ c.initDeps # Some(InitDeps(c))

PassiveEffects(c) ==
  LET rec  == c.recorderDeps # Some(RecorderDeps(c))
      init == c.initDeps # Some(InitDeps(c))
      c1 == IF rec /\ c.recorderDeps # None THEN StopCurrentRecorder(c) ELSE c
      c2 == IF init /\ c.initDeps # None THEN [c1 EXCEPT !.retryTimer = FALSE] ELSE c1
      c3 == IF rec THEN RecorderSetup(c2) ELSE c2
      c4 == IF init THEN InitializationEffect(c3) ELSE c3
  IN  [c4 EXCEPT !.recorderDeps = Some(RecorderDeps(c)),
                 !.initDeps = Some(InitDeps(c))]

\* ------------------------------------------------------------------ state
VARIABLES
  capturedMedia,   \* useState<CapturedMedia[]>: the in-memory collection
  store,           \* the durable store: stored records by key (the record id)
  configured,      \* geminiService.isConfigured(): fixed when the service is built
  loadPhase,       \* loadPersistedMedia: "loading", then "timer" (reprocess
                   \* scheduled) or "done"
  restoredMedia,   \* the array the load restored, which the timer closes over
  reprocessed,     \* what the last reprocessAnalysis run did: ids passed to the
                   \* update callback, in order, and the count it returned
  now,             \* Date.now()
  nextId,          \* the next id createMediaFromBlob allocates
  tasks,           \* processVideoWithGemini per record: where it stands ("idle",
                   \* "inflight": awaiting the provider, "storing": awaiting the
                   \* store write, "done", "caught": ended in its catch block),
                   \* the record it was called with, the provider's result
  pendingDeletes,  \* store deletes issued by removeMedia and not yet settled
  submitted,       \* history: calls of geminiService.processVideo per record id
  removedInFlight, \* history: ids removeMedia took out of the collection while
                   \* their inference was in flight
  serviceCalls,    \* geminiService.processVideo: the calls made, each with its
                   \* arguments, where it stands ("idle": not made yet,
                   \* "encoding": awaiting blobToBase64, "generating": awaiting
                   \* generateContent, "returned", "threw"), the requests sent
                   \* to the provider and the result returned
  parsing,         \* a call of parseAnalysisResult on its own: the text it is
                   \* given (an embedded body and what surrounds it), whether
                   \* it has returned or thrown, and the value returned
  overlay,         \* PushupAnalysisOverlay over a video element: its props
                   \* (timeline, bestRep, isVisible), the element's duration and
                   \* currentTime (videoTime), its state (currentTime,
                   \* activeRep), and the time the last time-update used
  camera           \* CameraPreview: its props (mode, facing, selectedDeviceId),
                   \* its state (cameraStatus, mediaStream, isRecording,
                   \* retryCount), mediaRecorderRef and the recorders created,
                   \* the streams whose tracks run, the dependencies its
                   \* effects last ran with, its pending timers, and the
                   \* payloads handed to onCapture

vars ==
  <<capturedMedia, store, configured, loadPhase, restoredMedia, reprocessed, now,
    nextId, tasks, pendingDeletes, submitted, removedInFlight, serviceCalls,
    parsing, overlay, camera>>

\* ------------------------------------------------------------------ records
\* types/media.ts CapturedMedia.geminiAnalysis
Analysis(result, prompt, timestamp, isProcessing, error, pushupData) ==
  [result |-> result, prompt |-> prompt, timestamp |-> timestamp,
   isProcessing |-> isProcessing, error |-> error, pushupData |-> pushupData]

\* What  {...m.geminiAnalysis!}  spreads: the annotation's fields, or nothing
\* when the annotation is undefined.
Spread(ga) ==
  IF ga # None THEN ga[1] ELSE Analysis(EmptyText, "", 0, FALSE, None, None)

Extension(type) == IF type = "photo" THEN "jpg" ELSE "webm"

\* createMediaFromBlob: a record with a fresh id, the current time and the
\* filename derived from kind and time; nothing is persisted. The payload is
\* named after the capture it came from. (The object URL is not modelled.)
createMediaFromBlob(id, type, timestamp) ==
  [id |-> id, type |-> type, blob |-> id, timestamp |-> timestamp,
   filename |-> <<type, timestamp, Extension(type)>>,
   indexedDbId |-> None, geminiAnalysis |-> None]

\* StoredMediaData built from a record (addMedia, processVideoWithGemini).
StoredData(m, ga) ==
  [id |-> m.id, type |-> m.type, blob |-> m.blob, timestamp |-> m.timestamp,
   filename |-> m.filename, geminiAnalysis |-> ga]

\* A variant that gives a restored video without annotation a pending one when
\* inference is configured.
RestoreAttaching(stored) ==
  [id |-> stored.id, type |-> stored.type, blob |-> stored.blob,
   timestamp |-> stored.timestamp, filename |-> stored.filename,
   indexedDbId |-> Some(stored.id),
   geminiAnalysis |->
     IF stored.type = "video" /\ stored.geminiAnalysis = None /\ configured
       THEN Some([result |-> <<>>, prompt |-> "Analyze this pushup video ...",
                  timestamp |-> stored.timestamp, isProcessing |-> TRUE,
                  error |-> <<>>, pushupData |-> <<>>])
       ELSE stored.geminiAnalysis]

\* loadPersistedMedia: a stored record restored into a CapturedMedia.
Restore(stored) ==
  [id |-> stored.id, type |-> stored.type, blob |-> stored.blob,
   timestamp |-> stored.timestamp, filename |-> stored.filename,
   indexedDbId |-> Some(stored.id), geminiAnalysis |-> stored.geminiAnalysis]

\* ------------------------------------------------------------------ the store
\* mediaDatabase.storeMedia: put by key; the key is the record's id, returned.
StorePut(st, rec) ==
  [k \in (DOMAIN st) \cup {rec.id} |-> IF k = rec.id THEN rec ELSE st[k]]

\* mediaDatabase.deleteMedia
StoreDelete(st, key) == [k \in (DOMAIN st) \ {key} |-> st[k]]

\* mediaDatabase.clearAllMedia
StoreClear == [k \in {} |-> 0]

\* mediaDatabase.getAllMedia: every stored record, in key order.
RECURSIVE KeysAscending(_)
KeysAscending(S) ==
  IF S = {} THEN <<>>
  ELSE LET least == CHOOSE k \in S : \A j \in S : k <= j
       IN <<least>> \o KeysAscending(S \ {least})

StoreGetAll(st) ==
  LET ks == KeysAscending(DOMAIN st) IN [i \in 1..Len(ks) |-> st[ks[i]]]

\* Array.prototype.sort((a, b) => b.timestamp - a.timestamp): stable, newest first.
RECURSIVE InsertByTimestamp(_, _)
InsertByTimestamp(sorted, m) ==
  IF sorted = <<>> THEN <<m>>
  ELSE IF sorted[1].timestamp < m.timestamp THEN <<m>> \o sorted
  ELSE <<sorted[1]>> \o InsertByTimestamp(Tail(sorted), m)

RECURSIVE SortNewestFirst(_)
SortNewestFirst(ms) ==
  IF ms = <<>> THEN <<>>
  ELSE InsertByTimestamp(SortNewestFirst(SubSeq(ms, 1, Len(ms) - 1)), ms[Len(ms)])


\* ------------------------------------------------------------------ inference results
\* GeminiVideoProcessingResult
Success(text) == [success |-> TRUE, result |-> Some(text), error |-> None]
Failure(message) == [success |-> FALSE, result |-> None, error |-> Some(message)]
Results == {Success(t) : t \in Texts} \cup {Failure(e) : e \in ErrorMessages}

\* A variant that takes any text of a successful result, the empty one too.
IsUsableWhenEmpty(r) == r.success /\ r.result # None

\* if (result.success && result.result): an empty text is falsy.
IsUsable(r) == r.success /\ r.result # None /\ r.result[1] # EmptyText

\* result.error || 'Analysis failed'
ErrorOf(r) == IF r.error # None /\ r.error[1] # "" THEN r.error[1] ELSE AnalysisFailed

\* ------------------------------------------------------------------ geminiService
\* Calls of processVideo that may be in progress at the same time.
MaxCalls == 2
CallIds == 1..MaxCalls

NotInitialized == "Gemini API not initialized. Check your API key configuration."
UnknownError == "Unknown error occurred"
DefaultPrompt == "Analyze this video and describe what you see in detail."
DefaultModel == "gemini-1.5-flash"
DefaultMimeType == "video/webm"

\* The arguments of a call: the blob's type ("" when it has none) and
\* options.prompt.
BlobTypes == {"", "video/mp4"}
PromptOptions == {None, Some(PushupPrompt)}

\* What a rejected promise or a throw may carry: an Error with a message, or a
\* value that is not an Error (the ProgressEvent of FileReader.onerror).
ErrorValues == {[isError |-> TRUE, message |-> e] : e \in ErrorMessages \cup {""}}
ProgressEvent == [isError |-> FALSE, message |-> ""]
Thrown == ErrorValues \cup {ProgressEvent}

\* error instanceof Error ? error.message : 'Unknown error occurred'
CaughtMessage(err) == IF err.isError THEN err.message ELSE UnknownError

IdleCall ==
  [pc |-> "idle", blobType |-> "", prompt |-> None, requests |-> <<>>, result |-> None]

\* blobToBase64: the part of the data URL after the comma.
Base64(blobType) == <<"base64", blobType>>

\* The content sent with generateContent([prompt, videoPart]) to the model.
Request(call) ==
  [model |-> DefaultModel,
   prompt |-> IF call.prompt # None /\ call.prompt[1] # "" THEN call.prompt[1]
              ELSE DefaultPrompt,
   data |-> Base64(call.blobType),
   mimeType |-> IF call.blobType # "" THEN call.blobType ELSE DefaultMimeType]

ServiceFrame ==
  UNCHANGED <<capturedMedia, store, configured, loadPhase, restoredMedia, reprocessed, now,
              nextId, tasks, pendingDeletes, submitted, removedInFlight, parsing,
                 overlay, camera>>

\* processVideo is called: without genAI it returns the failure at once; with
\* it, it gets the model and awaits blobToBase64.
ProcessVideoCalled(c, blobType, prompt) ==
  /\ serviceCalls[c].pc = "idle"
  /\ serviceCalls' = [serviceCalls EXCEPT ![c] =
                IF ~configured
                  THEN [pc |-> "returned", blobType |-> blobType, prompt |-> prompt,
                        requests |-> <<>>, result |-> Some(Failure(NotInitialized))]
                  ELSE [pc |-> "encoding", blobType |-> blobType, prompt |-> prompt,
                        requests |-> <<>>, result |-> None]]
  /\ ServiceFrame

\* blobToBase64 resolves: the request goes to the provider.
EncodingDone(c) ==
  /\ serviceCalls[c].pc = "encoding"
  /\ serviceCalls' = [serviceCalls EXCEPT ![c].pc = "generating",
                            ![c].requests = Append(@, Request(serviceCalls[c]))]
  /\ ServiceFrame

\* A variant with blobToBase64 awaited outside the try block: its rejection
\* leaves processVideo as an exception.
EncodingFailsEscaping(c) ==
  /\ serviceCalls[c].pc = "encoding"
  /\ serviceCalls' = [serviceCalls EXCEPT ![c].pc = "threw"]
  /\ ServiceFrame

\* blobToBase64 rejects (reader.onerror): caught, a failure is returned.
EncodingFails(c) ==
  /\ serviceCalls[c].pc = "encoding"
  /\ serviceCalls' = [serviceCalls EXCEPT ![c].pc = "returned",
                            ![c].result = Some(Failure(CaughtMessage(ProgressEvent)))]
  /\ ServiceFrame

\* generateContent resolves and response.text() gives the text.
ProviderResponds(c, text) ==
  /\ serviceCalls[c].pc = "generating"
  /\ serviceCalls' = [serviceCalls EXCEPT ![c].pc = "returned", ![c].result = Some(Success(text))]
  /\ ServiceFrame

\* generateContent rejects, or response.text() throws: caught, a failure is
\* returned.
ProviderFails(c, err) ==
  /\ serviceCalls[c].pc = "generating"
  /\ serviceCalls' = [serviceCalls EXCEPT ![c].pc = "returned",
                            ![c].result = Some(Failure(CaughtMessage(err)))]
  /\ ServiceFrame

\* ------------------------------------------------------------------ useMediaCapture
InMemory(id) == \E i \in 1..Len(capturedMedia) : capturedMedia[i].id = id

\* A variant that updates by the position the record was inserted at.
MapAnalysisStale(prev, id, news) ==
  [i \in 1..Len(prev) |->
     IF i = 1 THEN [prev[i] EXCEPT !.geminiAnalysis = Some(news[i])] ELSE prev[i]]

\* A variant that rebuilds the updated record without its storage key.
MapAnalysisRebuilding(prev, id, news) ==
  [i \in 1..Len(prev) |->
     IF prev[i].id = id
       THEN [prev[i] EXCEPT !.geminiAnalysis = Some(news[i]), !.indexedDbId = None]
       ELSE prev[i]]

\* prev.map(m => m.id === id ? { ...m, geminiAnalysis: <new> } : m), where
\* news[i] is the annotation the update builds for the record at position i.
MapAnalysis(prev, id, news) ==
  [i \in 1..Len(prev) |->
     IF prev[i].id = id THEN [prev[i] EXCEPT !.geminiAnalysis = Some(news[i])]
     ELSE prev[i]]

\* A variant that does not look at the kind of the record.
mediaWithProcessingAnyKind(media, timestamp) ==
  IF configured
    THEN [media EXCEPT !.geminiAnalysis =
            Some(Analysis(EmptyText, PushupPrompt, timestamp, TRUE, None, None))]
    ELSE media

\* The pending annotation addMedia attaches to a video when inference is
\* configured; any other record is passed through.
mediaWithProcessing(media, timestamp) ==
  IF media.type = "video" /\ configured
    THEN [media EXCEPT !.geminiAnalysis =
            Some(Analysis(EmptyText, PushupPrompt, timestamp, TRUE, None, None))]
    ELSE media

\* processVideoWithGemini returns at once unless called with an annotated video.
ProcessVideoRuns(media) == media.type = "video" /\ media.geminiAnalysis # None

\* A variant that stores the text without decoding it.
updatedAnalysisUndecoded(media, text) ==
  [Spread(media.geminiAnalysis) EXCEPT !.result = text, !.isProcessing = FALSE]

\* The annotation processVideoWithGemini builds from a usable result.
updatedAnalysis(media, text) ==
  [Spread(media.geminiAnalysis) EXCEPT
     !.result = text, !.pushupData = parseAnalysisResult(text), !.isProcessing = FALSE]

\* The annotation it builds when the provider reports a failure.
errorAnalysis(media, r) ==
  [Spread(media.geminiAnalysis) EXCEPT !.isProcessing = FALSE, !.error = Some(ErrorOf(r))]

\* A variant whose catch block does not keep the structured value.
caughtAnalysisDropping(m) ==
  [Spread(m.geminiAnalysis) EXCEPT
     !.isProcessing = FALSE, !.error = Some(ProcessingFailed), !.pushupData = None]

\* The annotation its catch block builds from the record's current annotation.
caughtAnalysis(m) ==
  [Spread(m.geminiAnalysis) EXCEPT !.isProcessing = FALSE, !.error = Some(ProcessingFailed)]

IdleTask == [pc |-> "idle", media |-> None, result |-> None]

\* A variant that prepends the record without the key of the stored copy.
AddMediaStoredKeyless(type) ==
  /\ nextId \in NewIds
  /\ LET media == createMediaFromBlob(nextId, type, now)
         withProcessing == mediaWithProcessing(media, now)
         storedData == StoredData(withProcessing, withProcessing.geminiAnalysis)
         runs == media.type = "video" /\ configured /\ ProcessVideoRuns(withProcessing)
     IN /\ store' = StorePut(store, storedData)
        /\ capturedMedia' = <<withProcessing>> \o capturedMedia
        /\ tasks' = IF runs
                      THEN [tasks EXCEPT ![nextId] =
                              [pc |-> "inflight", media |-> Some(withProcessing), result |-> None]]
                      ELSE tasks
        /\ submitted' = IF runs THEN [submitted EXCEPT ![nextId] = @ + 1] ELSE submitted
  /\ nextId' = nextId + 1
  /\ now' = now + 1
  /\ UNCHANGED <<configured, loadPhase, restoredMedia, reprocessed, pendingDeletes, removedInFlight, serviceCalls,
                 parsing, overlay, camera>>

\* addMedia, the store put succeeding: the record (with its pending annotation)
\* is stored, prepended to the collection with its key, and the inference is
\* submitted for a video when the service is configured.
AddMediaStored(type) ==
  /\ nextId \in NewIds
  /\ LET media == createMediaFromBlob(nextId, type, now)
         withProcessing == mediaWithProcessing(media, now)
         storedData == StoredData(withProcessing, withProcessing.geminiAnalysis)
         mediaWithId == [withProcessing EXCEPT !.indexedDbId = Some(storedData.id)]
         runs == media.type = "video" /\ configured /\ ProcessVideoRuns(mediaWithId)
     IN /\ store' = StorePut(store, storedData)
        /\ capturedMedia' = <<mediaWithId>> \o capturedMedia
        /\ tasks' = IF runs
                      THEN [tasks EXCEPT ![nextId] =
                              [pc |-> "inflight", media |-> Some(mediaWithId), result |-> None]]
                      ELSE tasks
        /\ submitted' = IF runs THEN [submitted EXCEPT ![nextId] = @ + 1] ELSE submitted
  /\ nextId' = nextId + 1
  /\ now' = now + 1
  /\ UNCHANGED <<configured, loadPhase, restoredMedia, reprocessed, pendingDeletes, removedInFlight, serviceCalls,
                 parsing, overlay, camera>>

\* A variant whose catch block only logs.
AddMediaUnstoredLosing(type) ==
  /\ nextId \in NewIds
  /\ nextId' = nextId + 1
  /\ now' = now + 1
  /\ UNCHANGED <<capturedMedia, store, configured, loadPhase, restoredMedia, reprocessed,
                 tasks, pendingDeletes, submitted, removedInFlight, serviceCalls,
                 parsing, overlay, camera>>

\* A variant whose catch block prepends the record with the pending annotation.
AddMediaUnstoredPending(type) ==
  /\ nextId \in NewIds
  /\ LET media == createMediaFromBlob(nextId, type, now)
     IN capturedMedia' = <<mediaWithProcessing(media, now)>> \o capturedMedia
  /\ nextId' = nextId + 1
  /\ now' = now + 1
  /\ UNCHANGED <<store, configured, loadPhase, restoredMedia, reprocessed, tasks,
                 pendingDeletes, submitted, removedInFlight, serviceCalls,
                 parsing, overlay, camera>>

\* addMedia, the store put failing: the catch block prepends the record it was
\* called with.
AddMediaUnstored(type) ==
  /\ nextId \in NewIds
  /\ LET media == createMediaFromBlob(nextId, type, now)
     IN capturedMedia' = <<media>> \o capturedMedia
  /\ nextId' = nextId + 1
  /\ now' = now + 1
  /\ UNCHANGED <<store, configured, loadPhase, restoredMedia, reprocessed, tasks,
                 pendingDeletes, submitted, removedInFlight, serviceCalls,
                 parsing, overlay, camera>>

\* processVideoWithGemini resumes with the provider's result: one update of the
\* in-memory record, then (usable result, record has a key) the store write.
InferenceReturns(id, r) ==
  /\ tasks[id].pc = "inflight"
  /\ LET media == tasks[id].media[1]
         analysis == IF IsUsable(r) THEN updatedAnalysis(media, r.result[1])
                     ELSE errorAnalysis(media, r)
         news == [i \in 1..Len(capturedMedia) |-> analysis]
     IN /\ capturedMedia' = MapAnalysis(capturedMedia, id, news)
        /\ tasks' = [tasks EXCEPT ![id] =
                       [pc |-> IF IsUsable(r) /\ media.indexedDbId # None
                                 THEN "storing" ELSE "done",
                        media |-> tasks[id].media, result |-> Some(r)]]
  /\ UNCHANGED <<store, configured, loadPhase, restoredMedia, reprocessed, now, nextId,
                 pendingDeletes, submitted, removedInFlight, serviceCalls,
                 parsing, overlay, camera>>

\* The store write of processVideoWithGemini succeeds.
AnalysisStored(id) ==
  /\ tasks[id].pc = "storing"
  /\ LET media == tasks[id].media[1]
         text == tasks[id].result[1].result[1]
     IN store' = StorePut(store, StoredData(media, Some(updatedAnalysis(media, text))))
  /\ tasks' = [tasks EXCEPT ![id].pc = "done"]
  /\ UNCHANGED <<capturedMedia, configured, loadPhase, restoredMedia, reprocessed, now,
                 nextId, pendingDeletes, submitted, removedInFlight, serviceCalls,
                 parsing, overlay, camera>>

\* The store write of processVideoWithGemini fails: the catch block updates the
\* in-memory record again.
AnalysisStoreFails(id) ==
  /\ tasks[id].pc = "storing"
  /\ LET news == [i \in 1..Len(capturedMedia) |-> caughtAnalysis(capturedMedia[i])]
     IN capturedMedia' = MapAnalysis(capturedMedia, id, news)
  /\ tasks' = [tasks EXCEPT ![id].pc = "caught"]
  /\ UNCHANGED <<store, configured, loadPhase, restoredMedia, reprocessed, now, nextId,
                 pendingDeletes, submitted, removedInFlight, serviceCalls,
                 parsing, overlay, camera>>


\* A variant that issues the store delete whether or not the record has a key.
RemoveMediaAlwaysDeleting(id) ==
  /\ LET found == {i \in 1..Len(capturedMedia) : capturedMedia[i].id = id}
     IN /\ pendingDeletes' = IF found # {} THEN pendingDeletes \cup {id} ELSE pendingDeletes
        /\ removedInFlight' =
             IF found # {} /\ id \in NewIds /\ tasks[id].pc = "inflight"
               THEN removedInFlight \cup {id}
               ELSE removedInFlight
  /\ capturedMedia' = SelectSeq(capturedMedia, LAMBDA m : m.id # id)
  /\ UNCHANGED <<store, configured, loadPhase, restoredMedia, reprocessed, now, nextId,
                 tasks, submitted, serviceCalls, parsing, overlay, camera>>

\* removeMedia: the first record with the id is looked up, a store delete is
\* issued when it has a key, and every record with the id is filtered out.
RemoveMedia(id) ==
  /\ LET found == {i \in 1..Len(capturedMedia) : capturedMedia[i].id = id}
         mediaToRemove == capturedMedia[CHOOSE i \in found : \A j \in found : i <= j]
     IN /\ pendingDeletes' =
             IF found # {} /\ mediaToRemove.indexedDbId # None
               THEN pendingDeletes \cup {mediaToRemove.indexedDbId[1]}
               ELSE pendingDeletes
        /\ removedInFlight' =
             IF found # {} /\ id \in NewIds /\ tasks[id].pc = "inflight"
               THEN removedInFlight \cup {id}
               ELSE removedInFlight
  /\ capturedMedia' = SelectSeq(capturedMedia, LAMBDA m : m.id # id)
  /\ UNCHANGED <<store, configured, loadPhase, restoredMedia, reprocessed, now, nextId,
                 tasks, submitted, serviceCalls, parsing, overlay, camera>>

\* A store delete issued by removeMedia takes effect.
DeleteSettles(key) ==
  /\ key \in pendingDeletes
  /\ store' = StoreDelete(store, key)
  /\ pendingDeletes' = pendingDeletes \ {key}
  /\ UNCHANGED <<capturedMedia, configured, loadPhase, restoredMedia, reprocessed, now,
                 nextId, tasks, submitted, removedInFlight, serviceCalls,
                 parsing, overlay, camera>>

\* A store delete issued by removeMedia fails: the error is logged.
DeleteFails(key) ==
  /\ key \in pendingDeletes
  /\ pendingDeletes' = pendingDeletes \ {key}
  /\ UNCHANGED <<capturedMedia, store, configured, loadPhase, restoredMedia, reprocessed,
                 now, nextId, tasks, submitted, removedInFlight, serviceCalls,
                 parsing, overlay, camera>>

\* A variant that, when clearing the store fails, keeps the records that exist
\* in memory only (those without a storage key).
ClearAllMediaKeepingUnstored(cleared) ==
  /\ store' = IF cleared THEN StoreClear ELSE store
  /\ capturedMedia' = IF cleared THEN <<>>
                      ELSE SelectSeq(capturedMedia, LAMBDA m : m.indexedDbId = None)
  /\ UNCHANGED <<configured, loadPhase, restoredMedia, reprocessed, now, nextId, tasks,
                 pendingDeletes, submitted, removedInFlight, serviceCalls,
                 parsing, overlay, camera>>

\* A variant that takes out of the collection the records that have a key.
ClearAllMediaOnlyStored(cleared) ==
  /\ store' = IF cleared THEN StoreClear ELSE store
  /\ capturedMedia' = SelectSeq(capturedMedia, LAMBDA m : m.indexedDbId = None)
  /\ UNCHANGED <<configured, loadPhase, restoredMedia, reprocessed, now, nextId, tasks,
                 pendingDeletes, submitted, removedInFlight, serviceCalls,
                 parsing, overlay, camera>>

\* clearAllMedia: the store is cleared (or the failure logged), then the
\* collection is emptied.
ClearAllMedia(cleared) ==
  /\ store' = IF cleared THEN StoreClear ELSE store
  /\ capturedMedia' = <<>>
  /\ UNCHANGED <<configured, loadPhase, restoredMedia, reprocessed, now, nextId, tasks,
                 pendingDeletes, submitted, removedInFlight, serviceCalls,
                 parsing, overlay, camera>>

\* ------------------------------------------------------------------ reprocessing
\* A variant that does not skip the items that already have a structured value.
NeedsReprocessingAgain(item) ==
  /\ item.type = "video"
  /\ item.geminiAnalysis # None
  /\ item.geminiAnalysis[1].result # EmptyText
  /\ ~item.geminiAnalysis[1].isProcessing

\* The test reprocessAnalysis applies to an item.
NeedsReprocessing(item) ==
  /\ item.type = "video"
  /\ item.geminiAnalysis # None
  /\ item.geminiAnalysis[1].result # EmptyText
  /\ item.geminiAnalysis[1].pushupData = None
  /\ ~item.geminiAnalysis[1].isProcessing

\* reprocessAnalysis: the loop over the items from position i on; acc holds the
\* calls of the update callback made so far and reprocessedCount.
RECURSIVE ReprocessFrom(_, _, _)
ReprocessFrom(media, i, acc) ==
  IF i > Len(media) THEN acc
  ELSE LET item == media[i]
           pushupData == parseAnalysisResult(item.geminiAnalysis[1].result)
       IN IF NeedsReprocessing(item) /\ pushupData # None
            THEN ReprocessFrom(media, i + 1,
                   [calls |-> Append(acc.calls, [id |-> item.id, pushupData |-> pushupData[1]]),
                    count |-> acc.count + 1])
            ELSE ReprocessFrom(media, i + 1, acc)

reprocessAnalysis(media) == ReprocessFrom(media, 1, [calls |-> <<>>, count |-> 0])

\* A variant that rebuilds the annotation without the structured value.
withPushupDataDropped(m, pushupData) == Spread(m.geminiAnalysis)

\* { ...m.geminiAnalysis!, pushupData }: the annotation the update callback builds.
withPushupData(m, pushupData) ==
  [Spread(m.geminiAnalysis) EXCEPT !.pushupData = Some(pushupData)]

\* The update callback loadPersistedMedia passes: the structured value is put
\* on the in-memory record with the id, if there is one.
RECURSIVE ApplyCalls(_, _)
ApplyCalls(prev, calls) ==
  IF calls = <<>> THEN prev
  ELSE LET news == [i \in 1..Len(prev) |-> withPushupData(prev[i], calls[1].pushupData)]
       IN ApplyCalls(MapAnalysis(prev, calls[1].id, news), Tail(calls))

\* A variant that puts the restored records in front of those in memory.
LoadReturnsMerging ==
  /\ loadPhase = "loading"
  /\ LET storedMedia == StoreGetAll(store)
         restored == SortNewestFirst([i \in 1..Len(storedMedia) |-> Restore(storedMedia[i])])
     IN IF Len(storedMedia) > 0
          THEN /\ capturedMedia' = restored \o capturedMedia
               /\ restoredMedia' = restored
               /\ loadPhase' = "timer"
          ELSE /\ loadPhase' = "done"
               /\ UNCHANGED <<capturedMedia, restoredMedia>>
  /\ UNCHANGED <<store, configured, reprocessed, now, nextId, tasks, pendingDeletes,
                 submitted, removedInFlight, serviceCalls, parsing, overlay, camera>>

\* A variant that restores the records in the order the store returns them.
LoadReturnsUnsorted ==
  /\ loadPhase = "loading"
  /\ LET storedMedia == StoreGetAll(store)
         restored == [i \in 1..Len(storedMedia) |-> Restore(storedMedia[i])]
     IN IF Len(storedMedia) > 0
          THEN /\ capturedMedia' = restored
               /\ restoredMedia' = restored
               /\ loadPhase' = "timer"
          ELSE /\ loadPhase' = "done"
               /\ UNCHANGED <<capturedMedia, restoredMedia>>
  /\ UNCHANGED <<store, configured, reprocessed, now, nextId, tasks, pendingDeletes,
                 submitted, removedInFlight, serviceCalls, parsing, overlay, camera>>

\* loadPersistedMedia resumes with the stored records: a non-empty result
\* replaces the collection, newest first, and schedules the reprocessing.
LoadReturns ==
  /\ loadPhase = "loading"
  /\ LET storedMedia == StoreGetAll(store)
         restored == SortNewestFirst([i \in 1..Len(storedMedia) |-> Restore(storedMedia[i])])
     IN IF Len(storedMedia) > 0
          THEN /\ capturedMedia' = restored
               /\ restoredMedia' = restored
               /\ loadPhase' = "timer"
          ELSE /\ loadPhase' = "done"
               /\ UNCHANGED <<capturedMedia, restoredMedia>>
  /\ UNCHANGED <<store, configured, reprocessed, now, nextId, tasks, pendingDeletes,
                 submitted, removedInFlight, serviceCalls, parsing, overlay, camera>>

\* loadPersistedMedia: reading the store fails; the error is logged.
LoadFails ==
  /\ loadPhase = "loading"
  /\ loadPhase' = "done"
  /\ UNCHANGED <<capturedMedia, store, configured, restoredMedia, reprocessed, now,
                 nextId, tasks, pendingDeletes, submitted, removedInFlight, serviceCalls,
                 parsing, overlay, camera>>

\* A variant that also calls back, with an empty report, for the restored items
\* whose annotation is pending.
ReprocessTimerOnPending ==
  /\ loadPhase = "timer"
  /\ LET run == reprocessAnalysis(restoredMedia)
         pending == SelectSeq(restoredMedia,
                      LAMBDA m : m.geminiAnalysis # None /\ m.geminiAnalysis[1].isProcessing)
         calls == run.calls \o
                    [i \in 1..Len(pending) |-> [id |-> pending[i].id, pushupData |-> EmptyObject]]
     IN /\ capturedMedia' = ApplyCalls(capturedMedia, calls)
        /\ reprocessed' =
             Some([calls |-> [i \in 1..Len(calls) |-> calls[i].id], count |-> Len(calls)])
  /\ loadPhase' = "done"
  /\ UNCHANGED <<store, configured, restoredMedia, now, nextId, tasks, pendingDeletes,
                 submitted, removedInFlight, serviceCalls, parsing, overlay, camera>>

\* A variant that also submits every restored video it updates to the provider.
ReprocessTimerResubmitting ==
  /\ loadPhase = "timer"
  /\ LET run == reprocessAnalysis(restoredMedia)
         called == {run.calls[i].id : i \in 1..Len(run.calls)}
     IN /\ capturedMedia' = ApplyCalls(capturedMedia, run.calls)
        /\ reprocessed' =
             Some([calls |-> [i \in 1..Len(run.calls) |-> run.calls[i].id],
                   count |-> run.count])
        /\ submitted' = [id \in Ids |-> IF id \in called THEN submitted[id] + 1
                                         ELSE submitted[id]]
  /\ loadPhase' = "done"
  /\ UNCHANGED <<store, configured, restoredMedia, now, nextId, tasks, pendingDeletes,
                 removedInFlight, serviceCalls, parsing, overlay, camera>>

\* The timer loadPersistedMedia set fires: reprocessAnalysis runs over the
\* restored array.
ReprocessTimer ==
  /\ loadPhase = "timer"
  /\ LET run == reprocessAnalysis(restoredMedia)
     IN /\ capturedMedia' = ApplyCalls(capturedMedia, run.calls)
        /\ reprocessed' =
             Some([calls |-> [i \in 1..Len(run.calls) |-> run.calls[i].id],
                   count |-> run.count])
  /\ loadPhase' = "done"
  /\ UNCHANGED <<store, configured, restoredMedia, now, nextId, tasks, pendingDeletes,
                 submitted, removedInFlight, serviceCalls, parsing, overlay, camera>>

\* ------------------------------------------------------------------ initial states
\* What an earlier session may have left in the store: a photo; a video taken
\* without inference ("plain"); a video whose inference never completed; a video
\* with a decoded report; a video whose text the parser of that session did not
\* decode and this one does; a video whose text does not decode.
LegacyKinds == {"photo", "plain", "pending", "parsed", "unparsed", "unparseable"}

LegacyAnalysis(kind, timestamp) ==
  CASE kind = "pending" -> Some(Analysis(EmptyText, PushupPrompt, timestamp, TRUE, None, None))
    [] kind = "parsed" ->
         Some(Analysis(FencedReport, PushupPrompt, timestamp, FALSE, None,
                       parseAnalysisResult(FencedReport)))
    [] kind = "unparsed" ->
         Some(Analysis(FencedReport, PushupPrompt, timestamp, FALSE, None, None))
    [] kind = "unparseable" ->
         Some(Analysis(PartialReport, PushupPrompt, timestamp, FALSE, None, None))
    [] OTHER -> None

Legacy(id, kind, timestamp) ==
  LET type == IF kind = "photo" THEN "photo" ELSE "video"
  IN StoredData(createMediaFromBlob(id, type, timestamp), LegacyAnalysis(kind, timestamp))

StoreOf(recs) == [k \in {r.id : r \in recs} |-> CHOOSE r \in recs : r.id = k]

\* The stores a capture session starts from.
SessionStores ==
  { StoreOf({}), StoreOf({Legacy(1, "unparsed", 1)}) }

Init ==
  /\ capturedMedia = <<>>
  /\ store \in SessionStores
  /\ configured \in BOOLEAN
  /\ loadPhase = "loading"
  /\ restoredMedia = <<>>
  /\ reprocessed = None
  /\ now = MaxLegacy + 1
  /\ nextId = MaxLegacy + 1
  /\ tasks = [id \in NewIds |-> IdleTask]
  /\ pendingDeletes = {}
  /\ submitted = [id \in Ids |-> 0]
  /\ removedInFlight = {}
  /\ serviceCalls = [c \in CallIds |-> IdleCall]
  /\ parsing = IdleParse
  /\ overlay = IdleOverlay
  /\ camera = IdleCamera

\* The ids a capture session can show: those of the records it starts from and
\* those of the records it adds.
SessionIds == UNION {DOMAIN s : s \in SessionStores} \cup NewIds

Next ==
  \/ LoadReturns
  \/ LoadFails
  \/ ReprocessTimer
  \/ \E type \in {"photo", "video"} : AddMediaStored(type)
  \/ \E type \in {"photo", "video"} : AddMediaUnstored(type)
  \/ \E id \in NewIds, r \in Results : InferenceReturns(id, r)
  \/ \E id \in NewIds : AnalysisStored(id)
  \/ \E id \in NewIds : AnalysisStoreFails(id)
  \/ \E id \in SessionIds : RemoveMedia(id)
  \/ \E key \in SessionIds : DeleteSettles(key)
  \/ \E key \in SessionIds : DeleteFails(key)
  \/ \E cleared \in BOOLEAN : ClearAllMedia(cleared)

Spec == Init /\ [][Next]_vars

\* ------------------------------------------------------------------ sessions without capture
\* A session that starts from any store of up to MaxLegacy records and only
\* browses: the load, the reprocessing, removals and clearing.
LegacyTimestamps == {1, 2}

LoadStores ==
  UNION { { [id \in 1..n |-> Legacy(id, kinds[id], stamps[id])] :
              kinds \in [1..n -> LegacyKinds], stamps \in [1..n -> LegacyTimestamps] } :
          n \in 0..MaxLegacy }

LoadInit ==
  /\ capturedMedia = <<>>
  /\ store \in LoadStores
  /\ configured \in BOOLEAN
  /\ loadPhase = "loading"
  /\ restoredMedia = <<>>
  /\ reprocessed = None
  /\ now = MaxLegacy + 1
  /\ nextId = MaxLegacy + 1
  /\ tasks = [id \in NewIds |-> IdleTask]
  /\ pendingDeletes = {}
  /\ submitted = [id \in Ids |-> 0]
  /\ removedInFlight = {}
  /\ serviceCalls = [c \in CallIds |-> IdleCall]
  /\ parsing = IdleParse
  /\ overlay = IdleOverlay
  /\ camera = IdleCamera

LoadNext ==
  \/ LoadReturns
  \/ LoadFails
  \/ ReprocessTimer
  \/ \E id \in LegacyIds : RemoveMedia(id)
  \/ \E key \in LegacyIds : DeleteSettles(key)
  \/ \E key \in LegacyIds : DeleteFails(key)
  \/ \E cleared \in BOOLEAN : ClearAllMedia(cleared)

LoadSpec == LoadInit /\ [][LoadNext]_vars

\* The same sessions, in which every store operation returns and the timer
\* fires; what the user does (removing, clearing) may or may not happen.
LoadLiveSpec ==
  /\ LoadInit
  /\ [][LoadNext]_vars
  /\ WF_vars(LoadReturns \/ LoadFails)
  /\ WF_vars(ReprocessTimer)
  /\ WF_vars(\E key \in LegacyIds : DeleteSettles(key) \/ DeleteFails(key))


\* ------------------------------------------------------------------ sessions without inference
\* A session that starts on an empty store without a credential, and the page
\* being reloaded in such a session: the hook is mounted anew (empty collection,
\* loading) over the same store, and the service is built anew, with or without
\* a credential this time. Ids and the clock go on.
Reload ==
  /\ ~configured
  /\ pendingDeletes = {}
  /\ configured' \in BOOLEAN
  /\ capturedMedia' = <<>>
  /\ loadPhase' = "loading"
  /\ restoredMedia' = <<>>
  /\ reprocessed' = None
  /\ UNCHANGED <<store, now, nextId, tasks, pendingDeletes, submitted, removedInFlight, serviceCalls,
                 parsing, overlay, camera>>

ReloadInit ==
  /\ capturedMedia = <<>>
  /\ store = StoreOf({})
  /\ configured = FALSE
  /\ loadPhase = "loading"
  /\ restoredMedia = <<>>
  /\ reprocessed = None
  /\ now = MaxLegacy + 1
  /\ nextId = MaxLegacy + 1
  /\ tasks = [id \in NewIds |-> IdleTask]
  /\ pendingDeletes = {}
  /\ submitted = [id \in Ids |-> 0]
  /\ removedInFlight = {}
  /\ serviceCalls = [c \in CallIds |-> IdleCall]
  /\ parsing = IdleParse
  /\ overlay = IdleOverlay
  /\ camera = IdleCamera

ReloadNext ==
  \/ Reload
  \/ LoadReturns
  \/ LoadFails
  \/ ReprocessTimer
  \/ \E type \in {"photo", "video"} : AddMediaStored(type)
  \/ \E type \in {"photo", "video"} : AddMediaUnstored(type)
  \/ \E id \in NewIds, r \in Results : InferenceReturns(id, r)
  \/ \E id \in NewIds : AnalysisStored(id)
  \/ \E id \in NewIds : AnalysisStoreFails(id)
  \/ \E id \in NewIds : RemoveMedia(id)
  \/ \E key \in NewIds : DeleteSettles(key)
  \/ \E key \in NewIds : DeleteFails(key)
  \/ \E cleared \in BOOLEAN : ClearAllMedia(cleared)

ReloadSpec == ReloadInit /\ [][ReloadNext]_vars

\* ------------------------------------------------------------------ the inference client alone
\* The service, built with or without a credential, serving up to MaxCalls
\* calls of processVideo; the hook is idle.
ServiceInit ==
  /\ capturedMedia = <<>>
  /\ store = StoreOf({})
  /\ configured \in BOOLEAN
  /\ loadPhase = "done"
  /\ restoredMedia = <<>>
  /\ reprocessed = None
  /\ now = MaxLegacy + 1
  /\ nextId = MaxLegacy + 1
  /\ tasks = [id \in NewIds |-> IdleTask]
  /\ pendingDeletes = {}
  /\ submitted = [id \in Ids |-> 0]
  /\ removedInFlight = {}
  /\ serviceCalls = [c \in CallIds |-> IdleCall]
  /\ parsing = IdleParse
  /\ overlay = IdleOverlay
  /\ camera = IdleCamera

ServiceNext ==
  \/ \E c \in CallIds, blobType \in BlobTypes, prompt \in PromptOptions :
       ProcessVideoCalled(c, blobType, prompt)
  \/ \E c \in CallIds : EncodingDone(c)
  \/ \E c \in CallIds : EncodingFails(c)
  \/ \E c \in CallIds, text \in Texts : ProviderResponds(c, text)
  \/ \E c \in CallIds, err \in Thrown : ProviderFails(c, err)

ServiceSpec == ServiceInit /\ [][ServiceNext]_vars

\* ------------------------------------------------------------------ the parser alone
\* A variant of the call without the catch block: what the try block throws
\* leaves parseAnalysisResult.
ParseOutcomeUncaught(text) ==
  IF TryParse(text).threw THEN [pc |-> "threw", value |-> None]
  ELSE [pc |-> "returned", value |-> TryParse(text).value]

\* How a call of parseAnalysisResult ends.
ParseOutcome(text) == [pc |-> "returned", value |-> parseAnalysisResult(text)]

\* parseAnalysisResult is called with the text.
ParseCalled ==
  /\ parsing.pc = "ready"
  /\ LET outcome == ParseOutcome(TextOf(parsing))
     IN parsing' = [parsing EXCEPT !.pc = outcome.pc, !.value = outcome.value]
  /\ UNCHANGED <<capturedMedia, store, configured, loadPhase, restoredMedia, reprocessed, now,
                 nextId, tasks, pendingDeletes, submitted, removedInFlight, serviceCalls,
                 overlay, camera>>

ParseInit ==
  /\ capturedMedia = <<>>
  /\ store = StoreOf({})
  /\ configured = FALSE
  /\ loadPhase = "done"
  /\ restoredMedia = <<>>
  /\ reprocessed = None
  /\ now = MaxLegacy + 1
  /\ nextId = MaxLegacy + 1
  /\ tasks = [id \in NewIds |-> IdleTask]
  /\ pendingDeletes = {}
  /\ submitted = [id \in Ids |-> 0]
  /\ removedInFlight = {}
  /\ serviceCalls = [c \in CallIds |-> IdleCall]
  /\ parsing \in {[body |-> b, before |-> w.before, after |-> w.after,
                    pc |-> "ready", value |-> None, between |-> None, again |-> None] :
                     b \in Bodies, w \in Wrappers}
  /\ overlay = IdleOverlay
  /\ camera = IdleCamera

\* Texts of other calls made between two calls with the same text.
OtherTexts == {FencedReport, PartialReport}

\* parseAnalysisResult is called with another text; its result is dropped.
ParseOtherCalled(text) ==
  /\ parsing.pc = "returned"
  /\ parsing.between = None
  /\ parsing.again = None
  /\ parsing' = [parsing EXCEPT !.between = Some(text)]
  /\ UNCHANGED <<capturedMedia, store, configured, loadPhase, restoredMedia, reprocessed, now,
                 nextId, tasks, pendingDeletes, submitted, removedInFlight, serviceCalls,
                 overlay, camera>>

\* A variant that keeps the text it narrowed in a variable outside the function
\* and decodes the text the previous call left there.
ParseAfterRemembering(text, earlier) ==
  IF earlier = <<>> THEN parseAnalysisResult(text)
  ELSE parseAnalysisResult(earlier[Len(earlier)])

\* What a call returns after the calls with the texts in earlier: cleanResult
\* and the regular expressions are local to the call, so the earlier calls have
\* left nothing behind.
ParseAfter(text, earlier) == parseAnalysisResult(text)

\* parseAnalysisResult is called a second time with the same text.
ParseCalledAgain ==
  /\ parsing.pc = "returned"
  /\ parsing.again = None
  /\ LET earlier == <<TextOf(parsing)>> \o
                    (IF parsing.between = None THEN <<>> ELSE <<parsing.between[1]>>)
     IN parsing' = [parsing EXCEPT !.again = Some(ParseAfter(TextOf(parsing), earlier))]
  /\ UNCHANGED <<capturedMedia, store, configured, loadPhase, restoredMedia, reprocessed, now,
                 nextId, tasks, pendingDeletes, submitted, removedInFlight, serviceCalls,
                 overlay, camera>>

ParseNext ==
  \/ ParseCalled
  \/ \E text \in OtherTexts : ParseOtherCalled(text)
  \/ ParseCalledAgain

ParseSpec == ParseInit /\ [][ParseNext]_vars

\* ------------------------------------------------------------------ the analysis overlay
OverlayFrame ==
  UNCHANGED <<capturedMedia, store, configured, loadPhase, restoredMedia, reprocessed, now,
              nextId, tasks, pendingDeletes, submitted, removedInFlight, serviceCalls,
              parsing, camera>>

\* Playback moves the video element's currentTime.
VideoPlays(t) ==
  /\ t # overlay.videoTime
  /\ overlay' = [overlay EXCEPT !.videoTime = t]
  /\ OverlayFrame

\* jumpToTimestamp, called with the timestamp of the timeline entry clicked:
\* the video element's currentTime is set.
jumpToTimestamp(seconds) ==
  /\ \E i \in 1..Len(overlay.timeline) : overlay.timeline[i].timestampSeconds = seconds
  /\ overlay' = [overlay EXCEPT !.videoTime = seconds]
  /\ OverlayFrame

\* handleTimeUpdate, and the render after it (which subscribes the handler of
\* the new render): the state currentTime takes the video's currentTime; the
\* active rep is found with the currentTime of the render the handler was
\* created in.
handleTimeUpdate ==
  /\ overlay' = [overlay EXCEPT
                   !.currentTime = overlay.videoTime,
                   !.activeRep = ActiveRepAt(overlay.timeline, overlay.currentTime,
                                             overlay.duration),
                   !.used = Some(overlay.currentTime)]
  /\ OverlayFrame

\* onToggle: the parent shows or hides the overlay.
onToggle ==
  /\ overlay' = [overlay EXCEPT !.isVisible = ~overlay.isVisible]
  /\ OverlayFrame

\* A variant with both bounds of the window exclusive.
BestRepShownInside(o) ==
  /\ o.isVisible
  /\ o.bestRep # None
  /\ o.currentTime > o.bestRep[1] - 2
  /\ o.currentTime < o.bestRep[1] + 2

\* Whether the render shows the best-rep indicator: the hidden overlay renders
\* its button only.
BestRepShown(o) ==
  /\ o.isVisible
  /\ o.bestRep # None
  /\ o.currentTime >= o.bestRep[1] - 2
  /\ o.currentTime <= o.bestRep[1] + 2

HookIdle ==
  /\ capturedMedia = <<>>
  /\ store = StoreOf({})
  /\ configured = FALSE
  /\ loadPhase = "done"
  /\ restoredMedia = <<>>
  /\ reprocessed = None
  /\ now = MaxLegacy + 1
  /\ nextId = MaxLegacy + 1
  /\ tasks = [id \in NewIds |-> IdleTask]
  /\ pendingDeletes = {}
  /\ submitted = [id \in Ids |-> 0]
  /\ removedInFlight = {}
  /\ serviceCalls = [c \in CallIds |-> IdleCall]
  /\ parsing = IdleParse

\* The visible overlay over any timeline, without a best rep.
OverlayInit ==
  /\ HookIdle
  /\ camera = IdleCamera
  /\ overlay \in {[timeline |-> tl, duration |-> d, bestRep |-> None, isVisible |-> TRUE,
                    videoTime |-> 0, currentTime |-> 0, activeRep |-> None, used |-> None] :
                     tl \in Timelines, d \in Durations}

OverlayNext ==
  \/ \E t \in VideoTimes : VideoPlays(t)
  \/ \E seconds \in EventTimes : jumpToTimestamp(seconds)
  \/ handleTimeUpdate

OverlaySpec == OverlayInit /\ [][OverlayNext]_vars

\* The overlay, shown or hidden, over one timeline, with or without a best rep.
HighlightInit ==
  /\ HookIdle
  /\ camera = IdleCamera
  /\ overlay \in {[timeline |-> GapTimeline, duration |-> Seconds(VideoDuration),
                    bestRep |-> b, isVisible |-> v,
                    videoTime |-> 0, currentTime |-> 0, activeRep |-> None, used |-> None] :
                     b \in BestRepTimes, v \in BOOLEAN}

HighlightNext ==
  \/ \E t \in VideoTimes : VideoPlays(t)
  \/ \E seconds \in EventTimes : jumpToTimestamp(seconds)
  \/ handleTimeUpdate
  \/ onToggle

HighlightSpec == HighlightInit /\ [][HighlightNext]_vars

\* ------------------------------------------------------------------ the camera preview: steps
CameraFrame ==
  UNCHANGED <<capturedMedia, store, configured, loadPhase, restoredMedia, reprocessed, now,
              nextId, tasks, pendingDeletes, submitted, removedInFlight, serviceCalls,
              parsing, overlay>>

\* The effects of the last commit run before anything else is handled.
FlushPassiveEffects ==
  /\ EffectsDue(camera)
  /\ camera' = PassiveEffects(camera)
  /\ CameraFrame

\* The Webcam element reports a started stream.
handleUserMedia ==
  /\ ~EffectsDue(camera)
  /\ camera.requesting
  /\ camera.streams < MaxStreams
  /\ LET stream == camera.streams + 1
     IN  camera' = Remounting(camera,
                     [camera EXCEPT !.cameraStatus = "ready",
                                    !.mediaStream = Some(stream),
                                    !.retryCount = 0,
                                    !.running = camera.running \cup {stream},
                                    !.streams = stream,
                                    !.requesting = FALSE])
  /\ CameraFrame

\* The Webcam element reports that no stream could be started.
handleUserMediaError ==
  /\ ~EffectsDue(camera)
  /\ camera.requesting
  /\ camera' = Remounting(camera,
                 IF camera.retryCount < RetryLimit
                 THEN [camera EXCEPT !.cameraStatus = "error",
                                     !.mediaStream = None,
                                     !.requesting = FALSE,
                                     !.retryCount = camera.retryCount + 1,
                                     !.retryTimer = TRUE]
                 ELSE [camera EXCEPT !.cameraStatus = "error",
                                     !.mediaStream = None,
                                     !.requesting = FALSE])
  /\ CameraFrame

\* The timeout handleUserMediaError set elapses.
RetryTimer ==
  /\ ~EffectsDue(camera)
  /\ camera.retryTimer
  /\ camera' = [camera EXCEPT !.cameraStatus = "initializing", !.retryTimer = FALSE]
  /\ CameraFrame

\* On a desktop, the enumeration of video inputs ends and selects the first
\* one where none is selected.
DevicesEnumerated ==
  /\ ~EffectsDue(camera)
  /\ ~camera.isMobile
  /\ camera.selectedDeviceId = NoDevice
  /\ camera' = Remounting(camera, [camera EXCEPT !.selectedDeviceId = DefaultDevice])
  /\ CameraFrame

\* visibilitychange: the page is hidden.
VisibilityHidden ==
  /\ ~EffectsDue(camera)
  /\ ~camera.hidden
  /\ camera' = [stopCurrentCameraStream(camera) EXCEPT !.cameraStatus = "idle",
                                                       !.hidden = TRUE]
  /\ CameraFrame

\* visibilitychange: the page is visible again.
VisibilityVisible ==
  /\ ~EffectsDue(camera)
  /\ camera.hidden
  /\ camera' = [camera EXCEPT !.hidden = FALSE,
                              !.visibleTimer = camera.visibleTimer
                                                 \/ camera.cameraStatus = "idle"]
  /\ CameraFrame

\* The timeout set when the page became visible elapses.
VisibleTimer ==
  /\ ~EffectsDue(camera)
  /\ camera.visibleTimer
  /\ camera.retryCount < MaxRetryCount
  /\ camera' = Remounting(camera,
                 [camera EXCEPT !.cameraStatus = "initializing",
                                !.retryCount = camera.retryCount + 1,
                                !.visibleTimer = FALSE])
  /\ CameraFrame

\* The record button, where it starts a recording.
startRecording ==
  /\ ~EffectsDue(camera)
  /\ camera.mode = "video"
  /\ camera.cameraStatus = "ready"
  /\ ~camera.isRecording
  /\ camera.mediaRecorderRef # None
  /\ camera.recorders[camera.mediaRecorderRef[1]].state = "inactive"
  /\ camera.recordings < MaxRecordings
  /\ LET r == camera.mediaRecorderRef[1]
     IN  camera' = [camera EXCEPT !.recorders[r].state = "recording",
                                  !.recorders[r].recording = camera.recordings + 1,
                                  !.recordings = camera.recordings + 1,
                                  !.isRecording = TRUE,
                                  !.isCapturing = TRUE]
  /\ CameraFrame

\* The record button, where it stops the recording.
stopRecording ==
  /\ ~EffectsDue(camera)
  /\ camera.mode = "video"
  /\ camera.cameraStatus = "ready"
  /\ camera.isRecording
  /\ camera.mediaRecorderRef # None
  /\ camera.recorders[camera.mediaRecorderRef[1]].state = "recording"
  /\ camera' = StopCurrentRecorder(camera)
  /\ CameraFrame

\* The chunks of recorder r delivered during its current recording.
ChunksOfCurrent(rec) ==
  {i \in DOMAIN rec.chunks : rec.chunks[i][1] = rec.recording}

\* ondataavailable of recorder r: every second of a recording, and once more
\* after stop(). A chunk is written <<the recording it was delivered in, its
\* number in that recording>>.
DataAvailable(r, size) ==
  /\ r \in DOMAIN camera.recorders
  /\ camera.recorders[r].state = "recording" \/ camera.recorders[r].stopped
  /\ Cardinality(ChunksOfCurrent(camera.recorders[r])) < MaxChunks
  /\ LET rec == camera.recorders[r]
         chunk == <<rec.recording, Cardinality(ChunksOfCurrent(rec)) + 1>>
     IN  camera' = IF size > 0
                   THEN [camera EXCEPT !.recorders[r].chunks = Append(rec.chunks, chunk)]
                   ELSE camera
  /\ CameraFrame

\* onstop of recorder r: the chunks array becomes the payload of the media
\* handed to onCapture.
RecorderStopped(r) ==
  /\ ~EffectsDue(camera)
  /\ r \in DOMAIN camera.recorders
  /\ camera.recorders[r].stopped
  /\ camera' = [camera EXCEPT
                  !.captures = Append(camera.captures,
                                      [recording |-> camera.recorders[r].recording,
                                       chunks |-> camera.recorders[r].chunks]),
                  !.recorders[r].stopped = FALSE,
                  !.isRecording = FALSE,
                  !.isCapturing = FALSE]
  /\ CameraFrame

\* A button of the mode selector: the mode prop changes.
onModeChange(mode) ==
  /\ ~EffectsDue(camera)
  /\ camera.cameraStatus = "ready"
  /\ camera.isMobile \/ (~camera.isCapturing /\ ~camera.isRecording)
  /\ mode # camera.mode
  /\ Len(camera.recorders) < MaxRecorders
  /\ camera' = [camera EXCEPT !.mode = mode]
  /\ CameraFrame

\* The component mounted on a phone or a desktop, in either mode.
CameraInit ==
  /\ HookIdle
  /\ overlay = IdleOverlay
  /\ camera \in {[IdleCamera EXCEPT !.isMobile = m, !.mode = mode, !.requesting = TRUE] :
                   m \in BOOLEAN, mode \in Modes}

CameraNext ==
  \/ FlushPassiveEffects
  \/ handleUserMedia
  \/ handleUserMediaError
  \/ RetryTimer
  \/ DevicesEnumerated
  \/ VisibilityHidden
  \/ VisibilityVisible
  \/ VisibleTimer

CameraSpec == CameraInit /\ [][CameraNext]_vars

\* The recorder as the setup effect leaves it over a started stream in video
\* mode: installed in mediaRecorderRef, inactive, its chunks array empty.
RecorderInstalled(isMobile) ==
  LET c == [IdleCamera EXCEPT !.isMobile = isMobile,
                              !.mode = "video",
                              !.selectedDeviceId = IF isMobile THEN NoDevice
                                                   ELSE DefaultDevice,
                              !.cameraStatus = "ready",
                              !.mediaStream = Some(1),
                              !.running = {1},
                              !.streams = 1,
                              !.recorders = <<NewRecorder>>,
                              !.mediaRecorderRef = Some(1)]
  IN  [c EXCEPT !.recorderDeps = Some(RecorderDeps(c)), !.initDeps = Some(InitDeps(c))]

RecorderInit ==
  /\ HookIdle
  /\ overlay = IdleOverlay
  /\ camera \in {RecorderInstalled(isMobile) : isMobile \in BOOLEAN}

RecorderNext ==
  \/ startRecording
  \/ stopRecording
  \/ \E r \in 1..MaxRecorders, size \in {0, 1} : DataAvailable(r, size)
  \/ \E r \in 1..MaxRecorders : RecorderStopped(r)
  \/ \E mode \in Modes : onModeChange(mode)
  \/ FlushPassiveEffects

RecorderSpec == RecorderInit /\ [][RecorderNext]_vars

\* ------------------------------------------------------------------ properties
Types == {"photo", "video"}

\* The positions of the in-memory records with an id, and the annotation of the
\* first of them (absent when there is no such record or it has none).
PositionsOf(list, id) == {i \in 1..Len(list) : list[i].id = id}

AnalysisIn(list, id) ==
  IF PositionsOf(list, id) = {} THEN None
  ELSE list[CHOOSE i \in PositionsOf(list, id) : \A j \in PositionsOf(list, id) : i <= j].geminiAnalysis

RestoredIds == {restoredMedia[i].id : i \in 1..Len(restoredMedia)}

\* C1: when addMedia completes, with the store put succeeding or failing, the
\* in-memory collection holds a record with the id of the record added.
C1_AddKeepsCapture ==
  [][\A type \in Types :
       (AddMediaStored(type) \/ AddMediaUnstored(type))
         => PositionsOf(capturedMedia', nextId) # {}]_vars

\* A record whose store put failed is in memory, without a key.
C1_Witness ==
  \E i \in 1..Len(capturedMedia) :
    capturedMedia[i].id \in NewIds /\ capturedMedia[i].indexedDbId = None


Finished(id) == tasks[id].pc \in {"done", "caught"}

\* C2: when the provider reports a failure for a record that is still in memory
\* and has a storage key, then once processVideoWithGemini has ended both the
\* in-memory annotation and the stored annotation are no longer pending and
\* carry the failure reason.
C2_FailureReachesStore ==
  \A id \in NewIds :
    ( /\ Finished(id)
      /\ ~tasks[id].result[1].success
      /\ InMemory(id)
      /\ tasks[id].media[1].indexedDbId # None
      /\ id \in DOMAIN store )
    => LET a == AnalysisIn(capturedMedia, id)
           d == store[id].geminiAnalysis
       IN /\ a # None /\ ~a[1].isProcessing /\ a[1].error # None
          /\ d # None /\ ~d[1].isProcessing /\ d[1].error # None

\* C3: when the provider returns a non-empty text for a record that is still in
\* memory (and was not re-created from the store by the load meanwhile), the
\* in-memory annotation is no longer pending, holds the text and holds what the
\* parser makes of the text; once the store write has succeeded the stored
\* annotation is the same annotation.
C3_SuccessApplied ==
  \A id \in NewIds :
    ( /\ tasks[id].pc \in {"storing", "done", "caught"}
      /\ IsUsable(tasks[id].result[1])
      /\ InMemory(id)
      /\ id \notin RestoredIds )
    => LET a == AnalysisIn(capturedMedia, id)
           text == tasks[id].result[1].result[1]
       IN /\ a # None
          /\ ~a[1].isProcessing
          /\ a[1].result = text
          /\ a[1].pushupData = parseAnalysisResult(text)
          /\ tasks[id].pc = "done"
               => id \in DOMAIN store /\ store[id].geminiAnalysis = a

\* A fenced report was decoded and written to memory and to the store.
C3_Witness ==
  \E id \in NewIds :
    /\ tasks[id].pc = "done"
    /\ IsUsable(tasks[id].result[1])
    /\ tasks[id].result[1].result[1] = FencedReport
    /\ InMemory(id)
    /\ id \notin RestoredIds
    /\ AnalysisIn(capturedMedia, id)[1].pushupData # None
    /\ store[id].geminiAnalysis = AnalysisIn(capturedMedia, id)

\* C4: each step of processVideoWithGemini after the provider's result leaves
\* the in-memory collection as it is, and the step that takes the result changes
\* the annotation of the record (when it is in memory): one update per
\* submission, on every path.
C4_OneUpdatePerSubmission ==
  [][\A id \in NewIds :
       (tasks'[id] # tasks[id] /\ tasks[id].pc # "idle" /\ InMemory(id))
         => IF tasks[id].pc = "inflight"
              THEN AnalysisIn(capturedMedia', id) # AnalysisIn(capturedMedia, id)
              ELSE capturedMedia' = capturedMedia]_vars

\* C5: an in-memory annotation carries a failure reason only if the provider
\* gave no usable result for that record.
C5_FailureReasonOnlyFromInference ==
  \A i \in 1..Len(capturedMedia) :
    LET m == capturedMedia[i]
    IN (m.geminiAnalysis # None /\ m.geminiAnalysis[1].error # None)
         => /\ m.id \in NewIds
            /\ tasks[m.id].result # None
            /\ ~IsUsable(tasks[m.id].result[1])

\* C6: apart from the load replacing the collection, once an in-memory
\* annotation is no longer pending it never becomes pending again and its text
\* and failure reason never change while the record is in memory.
C6_TerminalAfterFirstResult ==
  [][~(loadPhase = "loading" /\ loadPhase' # "loading")
       => \A id \in Ids :
            LET a == AnalysisIn(capturedMedia, id)
                b == AnalysisIn(capturedMedia', id)
            IN (a # None /\ ~a[1].isProcessing /\ PositionsOf(capturedMedia', id) # {})
                 => /\ b # None
                    /\ ~b[1].isProcessing
                    /\ b[1].result = a[1].result
                    /\ b[1].error = a[1].error]_vars


IsPendingAnnotation(ga) ==
  /\ ga # None
  /\ ga[1].isProcessing
  /\ ga[1].result = EmptyText
  /\ ga[1].pushupData = None
  /\ ga[1].error = None
  /\ ga[1].prompt = PushupPrompt

\* C7: when addMedia completes with a successful store put, the record added
\* has a pending annotation (empty text, no structured value, no failure reason)
\* if it is a video and inference is configured, and no annotation otherwise;
\* the copy put into the store has the same annotation; and no photo, in memory
\* or in the store, ever has an annotation.
C7_PendingIffVideoAndConfigured ==
  /\ [](/\ \A i \in 1..Len(capturedMedia) :
             capturedMedia[i].type = "photo" => capturedMedia[i].geminiAnalysis = None
        /\ \A k \in DOMAIN store :
             store[k].type = "photo" => store[k].geminiAnalysis = None)
  /\ [][\A type \in Types :
          AddMediaStored(type)
            => LET m == capturedMedia'[1]
               IN /\ m.id = nextId
                  /\ m.type = type
                  /\ IF type = "video" /\ configured
                       THEN IsPendingAnnotation(m.geminiAnalysis)
                       ELSE m.geminiAnalysis = None
                  /\ store'[nextId].geminiAnalysis = m.geminiAnalysis]_vars

\* With inference configured, a photo was added and stored (and has no annotation).
C7_Witness ==
  /\ configured
  /\ \E i \in 1..Len(capturedMedia) :
       /\ capturedMedia[i].id \in NewIds
       /\ capturedMedia[i].indexedDbId # None
       /\ capturedMedia[i].type = "photo"
       /\ capturedMedia[i].id \in DOMAIN store

\* C8: the provider is called at most once per record id, only for a record
\* addMedia stored in this session, and only in a step of addMedia: never by
\* the load or by the reprocessing.
C8_AtMostOneSubmission ==
  /\ [](\A id \in Ids :
          /\ submitted[id] <= 1
          /\ submitted[id] = 1 => (id \in NewIds /\ id < nextId /\ tasks[id].pc # "idle"))
  /\ [][submitted' # submitted => \E type \in Types : AddMediaStored(type)]_vars

\* A record was submitted once, its inference ended, and the reprocessing ran
\* and updated a restored record.
C8_Witness ==
  /\ reprocessed # None
  /\ reprocessed[1].count >= 1
  /\ \E id \in NewIds : submitted[id] = 1 /\ Finished(id)

\* C9: a step of processVideoWithGemini for a record that is not in memory
\* (removed while the inference was in flight) leaves the in-memory collection
\* as it is; any step of it keeps the ids and their order and leaves every
\* record with another id unchanged.
C9_CompletionAfterRemoveIsNoOp ==
  [][\A id \in NewIds :
       (tasks'[id] # tasks[id] /\ tasks[id].pc \in {"inflight", "storing"})
         => /\ ~InMemory(id) => capturedMedia' = capturedMedia
            /\ Len(capturedMedia') = Len(capturedMedia)
            /\ \A i \in 1..Len(capturedMedia) :
                 /\ capturedMedia'[i].id = capturedMedia[i].id
                 /\ capturedMedia[i].id # id => capturedMedia'[i] = capturedMedia[i]]_vars

\* A record was removed while its inference was in flight, the inference has
\* ended, and other records are in memory.
C9_Witness ==
  \E id \in removedInFlight :
    /\ Finished(id)
    /\ ~InMemory(id)
    /\ Len(capturedMedia) > 0

\* C10: reprocessAnalysis calls the update once for each item that is a video,
\* has a non-empty text, no structured value, is not pending and whose text the
\* parser decodes, for no other item, and returns the number of those items.
C10_ReprocessSelectsUnparsed ==
  reprocessed # None
    => LET eligible ==
             {i \in 1..Len(restoredMedia) :
                LET ga == restoredMedia[i].geminiAnalysis
                IN /\ restoredMedia[i].type = "video"
                   /\ ga # None
                   /\ Len(ga[1].result) > 0
                   /\ ga[1].pushupData = None
                   /\ ~ga[1].isProcessing
                   /\ parseAnalysisResult(ga[1].result) # None}
           calls == reprocessed[1].calls
       IN /\ \A i \in 1..Len(restoredMedia) :
               Cardinality({j \in 1..Len(calls) : calls[j] = restoredMedia[i].id})
                 = IF i \in eligible THEN 1 ELSE 0
          /\ \A j \in 1..Len(calls) : calls[j] \in RestoredIds
          /\ reprocessed[1].count = Cardinality(eligible)

\* The reprocessing ran over several records and updated some, not all.
C10_Witness ==
  /\ reprocessed # None
  /\ reprocessed[1].count >= 1
  /\ Len(restoredMedia) > reprocessed[1].count

NothingReprocessed == [calls |-> <<>>, count |-> 0]

\* C11: reprocessAnalysis is idempotent: once a run's updates have been applied,
\* a second run over the same records (the restored array with the updates, and
\* the in-memory collection the updates went to) calls the update for no record
\* and returns 0.
C11_ReprocessIdempotent ==
  reprocessed # None
    => LET first == reprocessAnalysis(restoredMedia)
       IN /\ reprocessAnalysis(ApplyCalls(restoredMedia, first.calls)) = NothingReprocessed
          /\ reprocessAnalysis(capturedMedia) = NothingReprocessed

\* The first run updated a record that is still in memory, where it now has its
\* structured value, next to a record the run did not touch.
C11_Witness ==
  /\ reprocessed # None
  /\ reprocessed[1].count >= 1
  /\ reprocessAnalysis(restoredMedia).count >= 1
  /\ \E i, j \in 1..Len(capturedMedia) :
       /\ \E c \in 1..Len(reprocessed[1].calls) : reprocessed[1].calls[c] = capturedMedia[i].id
       /\ capturedMedia[i].geminiAnalysis[1].pushupData # None
       /\ \A c \in 1..Len(reprocessed[1].calls) : reprocessed[1].calls[c] # capturedMedia[j].id

\* C12: a structured value the reprocessing recovered for a record is on the
\* in-memory record and, the record having a storage key, on the stored copy
\* too, as after an inference result.
C12_ReprocessedReachesStore ==
  reprocessed # None
    => \A c \in 1..Len(reprocessed[1].calls) :
         LET id == reprocessed[1].calls[c]
         IN /\ InMemory(id) => AnalysisIn(capturedMedia, id)[1].pushupData # None
            /\ id \in DOMAIN store => store[id].geminiAnalysis[1].pushupData # None

\* C13: a step of removeMedia(id) leaves no in-memory record with the id and
\* keeps every other record, in the same order; it issues a store delete (of the
\* record's key) exactly when a record with the id was in memory and had a key,
\* and touches the store in no other way; and a step in which a store delete
\* settles, failing or not, leaves the in-memory collection as it is.
C13_RemoveMedia ==
  /\ [][\A id \in Ids :
          (UNCHANGED <<store, loadPhase, nextId, tasks>> /\ RemoveMedia(id))
            => LET pos == PositionsOf(capturedMedia, id)
                   first == CHOOSE i \in pos : \A j \in pos : i <= j
                   keyed == pos # {} /\ capturedMedia[first].indexedDbId # None
               IN /\ PositionsOf(capturedMedia', id) = {}
                  /\ Len(capturedMedia') = Len(capturedMedia) - Cardinality(pos)
                  /\ \A i \in (1..Len(capturedMedia)) \ pos :
                       capturedMedia'[i - Cardinality({j \in pos : j < i})] = capturedMedia[i]
                  /\ pendingDeletes' =
                       IF keyed THEN pendingDeletes \cup {capturedMedia[first].indexedDbId[1]}
                       ELSE pendingDeletes
                  /\ store' = store]_vars
  /\ [][(pendingDeletes' # pendingDeletes /\ pendingDeletes' \subseteq pendingDeletes)
          => capturedMedia' = capturedMedia]_vars

\* A stored record was removed while other records stayed in memory, and its
\* store delete failed: the record is still in the store and not in memory.
C13_Witness ==
  \E id \in removedInFlight :
    /\ tasks[id].pc = "inflight"
    /\ id \in DOMAIN store
    /\ id \notin pendingDeletes
    /\ ~InMemory(id)
    /\ Len(capturedMedia) > 0

\* C14: when clearAllMedia completes the in-memory collection is empty, whether
\* clearing the store succeeded or failed; and when it succeeded, no inference
\* being in flight, the store is empty too.
C14_ClearAllMedia ==
  [][\A cleared \in BOOLEAN :
       ClearAllMedia(cleared)
         => /\ capturedMedia' = <<>>
            /\ (cleared /\ \A id \in NewIds : tasks[id].pc \notin {"inflight", "storing"})
                 => DOMAIN store' = {}]_vars

\* Clearing the store failed: a record whose inference is in flight left the
\* collection without being removed, and is still in the store.
C14_Witness ==
  /\ capturedMedia = <<>>
  /\ \E id \in NewIds :
       /\ tasks[id].pc = "inflight"
       /\ id \notin removedInFlight
       /\ id \in DOMAIN store
       /\ loadPhase = "done"

\* C15: in a session that only loads (nothing was added before the load
\* returned), the step in which the load returns leaves in memory exactly one
\* record per stored record, with the stored id, kind, payload, timestamp,
\* filename and annotation and with the storage key set, in order of
\* non-increasing timestamp; the step in which reading the store fails leaves
\* the collection empty; either way loading has finished.
C15_LoadRestoresStore ==
  /\ [][LoadReturns
          => /\ Len(capturedMedia') = Cardinality(DOMAIN store)
             /\ \A k \in DOMAIN store :
                  \E i \in 1..Len(capturedMedia') :
                    /\ PositionsOf(capturedMedia', store[k].id) = {i}
                    /\ capturedMedia'[i].type = store[k].type
                    /\ capturedMedia'[i].blob = store[k].blob
                    /\ capturedMedia'[i].timestamp = store[k].timestamp
                    /\ capturedMedia'[i].filename = store[k].filename
                    /\ capturedMedia'[i].geminiAnalysis = store[k].geminiAnalysis
                    /\ capturedMedia'[i].indexedDbId = Some(k)
             /\ \A i, j \in 1..Len(capturedMedia') :
                  i < j => capturedMedia'[i].timestamp >= capturedMedia'[j].timestamp
             /\ loadPhase' # "loading"]_vars
  /\ [][LoadFails => (capturedMedia' = <<>> /\ loadPhase' = "done")]_vars

\* The load restored two records and put the newer one, which the store
\* returned second, first.
C15_Witness ==
  /\ loadPhase = "timer"
  /\ Len(capturedMedia) = 2
  /\ capturedMedia[1].id > capturedMedia[2].id
  /\ capturedMedia[1].timestamp > capturedMedia[2].timestamp
  /\ \A i \in 1..2 : capturedMedia[i].indexedDbId = Some(capturedMedia[i].id)

\* C16: a video added (and stored) while inference is not configured is in
\* memory and in the store without an annotation and is not submitted; no
\* record is submitted later than in the step that added it; and a record that
\* was never submitted has no annotation, in memory or in the store, in any
\* state: not after a reload with inference configured, not after the
\* reprocessing.
C16_NoAnnotationWithoutInference ==
  /\ [][(AddMediaStored("video") /\ ~configured)
          => /\ PositionsOf(capturedMedia', nextId) # {}
             /\ nextId \in DOMAIN store'
             /\ submitted'[nextId] = 0]_vars
  /\ [][\A id \in Ids : id < nextId => submitted'[id] = submitted[id]]_vars
  /\ [](\A id \in Ids :
          submitted[id] = 0
            => /\ \A i \in PositionsOf(capturedMedia, id) :
                    capturedMedia[i].geminiAnalysis = None
               /\ id \in DOMAIN store => store[id].geminiAnalysis = None)

\* A video added without inference is, after a reload with inference
\* configured, the load and the reprocessing, in memory with its key and in the
\* store, without annotation.
C16_Witness ==
  /\ configured
  /\ loadPhase = "done"
  /\ reprocessed # None
  /\ \E i \in 1..Len(capturedMedia) :
       /\ capturedMedia[i].type = "video"
       /\ capturedMedia[i].indexedDbId # None
       /\ capturedMedia[i].geminiAnalysis = None
       /\ submitted[capturedMedia[i].id] = 0
       /\ capturedMedia[i].id \in DOMAIN store

\* C17: a call of processVideo never ends by throwing; a call that has ended
\* has returned one result, which is either a success with a text (after one
\* request to the provider) or a failure with a reason, and the result is never
\* replaced; a rejected blobToBase64 and a rejected or throwing provider request
\* end in a failure result; and without a credential no request goes to the
\* provider and the call fails.
C17_ProcessVideoReturnsResult ==
  /\ [](\A c \in CallIds :
          LET call == serviceCalls[c]
          IN /\ call.pc \in {"idle", "encoding", "generating", "returned"}
             /\ call.result # None <=> call.pc = "returned"
             /\ Len(call.requests) <= 1
             /\ call.pc = "returned"
                  => LET r == call.result[1]
                     IN \/ r.success /\ r.result # None /\ r.error = None
                             /\ Len(call.requests) = 1
                        \/ ~r.success /\ r.result = None /\ r.error # None
             /\ ~configured
                  => /\ call.requests = <<>>
                     /\ call.pc = "returned" => call.result[1] = Failure(NotInitialized))
  /\ [][\A c \in CallIds :
          /\ serviceCalls[c].pc = "returned" => serviceCalls'[c] = serviceCalls[c]
          /\ (serviceCalls[c].pc \in {"encoding", "generating"}
                /\ serviceCalls'[c].pc \notin {"encoding", "generating"})
               => serviceCalls'[c].pc = "returned"
          /\ (EncodingFails(c) \/ \E err \in Thrown : ProviderFails(c, err))
               => ~serviceCalls'[c].result[1].success]_vars

\* With a credential, one call failed on encoding the payload, before any
\* request, and another on the provider's error, after its request.
C17_Witness ==
  /\ configured
  /\ \E c, d \in CallIds :
       /\ serviceCalls[c].pc = "returned"
       /\ serviceCalls[c].result[1] = Failure(UnknownError)
       /\ serviceCalls[c].requests = <<>>
       /\ serviceCalls[d].pc = "returned"
       /\ serviceCalls[d].result[1] = Failure("quota exceeded")
       /\ Len(serviceCalls[d].requests) = 1

Required == {"summary", "timeline", "insights"}

\* C18: for every body that is a valid analysis object (it decodes, on its own,
\* to an object with truthy summary, timeline and insights), whatever prose or
\* fenced block surrounds it and whatever its strings hold, parseAnalysisResult
\* returns an object equal to the one the body decodes to.
C18_ParseRecoversEmbeddedObject ==
  parsing.pc = "returned"
    => LET d == JsonParse(parsing.body)
       IN (d.kind = "object" /\ HasAnalysisShape(d.value))
            => parsing.value = Some(d.value)

\* C19: parseAnalysisResult never throws, and it returns absent whenever the
\* text it narrowed the input to does not decode, decodes to null or to a value
\* that is not an object, or decodes to an object without one of the keys
\* summary, timeline, insights; so it does for every input whose body is such a
\* text.
C19_ParseRejects ==
  /\ parsing.pc # "threw"
  /\ parsing.pc = "returned"
       => LET d == JsonParse(Candidate(TextOf(parsing)))
              b == JsonParse(parsing.body)
          IN /\ (d.kind # "object" \/ \E k \in Required : d.value[k] = <<"absent">>)
                  => parsing.value = None
             /\ (b.kind # "object" \/ \E k \in Required : b.value[k] = <<"absent">>)
                  => parsing.value = None

\* A fenced text that decodes to null: reading a property of null threw inside
\* the try block, and the call returned absent.
C19_Witness ==
  /\ parsing.pc = "returned"
  /\ parsing.value = None
  /\ parsing.before # <<>>
  /\ JsonParse(Candidate(TextOf(parsing))).kind = "null"
  /\ TryParse(TextOf(parsing)).threw

\* C20: whenever the text parseAnalysisResult narrowed the input to decodes to
\* an object that has the keys summary, timeline and insights, with whatever
\* values, it returns that object.
C20_PresenceOnlyValidation ==
  parsing.pc = "returned"
    => LET d == JsonParse(Candidate(TextOf(parsing)))
       IN (d.kind = "object" /\ \A k \in Required : d.value[k] # <<"absent">>)
            => parsing.value = Some(d.value)

UpperOf(timeline, e, duration) ==
  IF \E j \in 1..Len(timeline) : timeline[j].repNumber = e.repNumber + 1
    THEN LET j == CHOOSE j \in 1..Len(timeline) :
                     /\ timeline[j].repNumber = e.repNumber + 1
                     /\ \A k \in 1..(j - 1) : timeline[k].repNumber # e.repNumber + 1
         IN Seconds(timeline[j].timestampSeconds)
    ELSE duration

\* Entry i of the timeline is the first, in timeline order, whose interval holds t.
FirstHolding(timeline, i, t, duration) ==
  /\ timeline[i].timestampSeconds <= t
  /\ LessThan(t, UpperOf(timeline, timeline[i], duration))
  /\ \A k \in 1..(i - 1) :
       ~(/\ timeline[k].timestampSeconds <= t
         /\ LessThan(t, UpperOf(timeline, timeline[k], duration)))

\* C22: the active rep found for a time t is the first timeline entry e, in
\* timeline order, with e.timestampSeconds <= t < upper(e), where upper(e) is
\* the timestamp of the entry numbered e.repNumber + 1 if there is one and the
\* duration of the video otherwise; over the timeline (rep 1, 0s), (rep 2, 10s),
\* (rep 4, 30s) of a 40 s video, the times 20 and 35 both give rep 2.
C22_ActiveRepFirstInInterval ==
  /\ ActiveRepAt(<<Event(1, 0), Event(2, 10), Event(4, 30)>>, 20, Seconds(40)) = Some(2)
  /\ ActiveRepAt(<<Event(1, 0), Event(2, 10), Event(4, 30)>>, 35, Seconds(40)) = Some(2)
  /\ [][handleTimeUpdate =>
          LET tl == overlay.timeline
              t == overlay'.used[1]
              d == overlay.duration
          IN /\ \A i \in 1..Len(tl) :
                    FirstHolding(tl, i, t, d) => overlay'.activeRep = Some(tl[i].repNumber)
             /\ (\A i \in 1..Len(tl) : ~FirstHolding(tl, i, t, d))
                    => overlay'.activeRep = None]_vars

C22_Witness ==
  /\ overlay.timeline = GapTimeline
  /\ overlay.duration = Seconds(VideoDuration)
  /\ overlay.used = Some(3)
  /\ overlay.activeRep = Some(2)

\* C23: after a time-update notification has been handled, the active rep is
\* the one found at the playback time the video reported in that notification.
C23_ActiveRepAtReportedTime ==
  [][handleTimeUpdate =>
       overlay'.activeRep = ActiveRepAt(overlay.timeline, overlay.videoTime,
                                        overlay.duration)]_vars

\* C24: at a time smaller than the timestamp of every timeline entry, and at
\* any time over an empty timeline, no rep is active.
C24_NoneBeforeFirstEvent ==
  [][(/\ handleTimeUpdate
      /\ \A i \in 1..Len(overlay.timeline) :
            overlay'.used[1] < overlay.timeline[i].timestampSeconds)
       => overlay'.activeRep = None]_vars

C24_Witness ==
  /\ overlay.timeline # <<>>
  /\ overlay.duration = Seconds(VideoDuration)
  /\ overlay.used = Some(0)
  /\ \A i \in 1..Len(overlay.timeline) : overlay.timeline[i].timestampSeconds > 0
  /\ overlay.videoTime > 0
  /\ overlay.activeRep = None

\* The collection next is prev with nothing changed but the annotations of the
\* records whose id is in targets.
OnlyAnnotationsOf(prev, next, targets) ==
  /\ Len(next) = Len(prev)
  /\ \A i \in 1..Len(prev) :
       IF prev[i].id \in targets
         THEN [next[i] EXCEPT !.geminiAnalysis = prev[i].geminiAnalysis] = prev[i]
         ELSE next[i] = prev[i]

\* C25: an annotation update (inference success, inference failure, the catch
\* block, reprocessing) changes the annotation of the record with the id it
\* targets and nothing else: the record's id, kind, payload, timestamp, name
\* and storage key, and every other record and every position, stay as they were.
C25_UpdatesChangeOnlyTheAnnotation ==
  [][/\ \A id \in NewIds :
          ((\E r \in Results : InferenceReturns(id, r)) \/ AnalysisStoreFails(id))
            => OnlyAnnotationsOf(capturedMedia, capturedMedia', {id})
     /\ ReprocessTimer
          => OnlyAnnotationsOf(capturedMedia, capturedMedia',
               {reprocessed'[1].calls[c] : c \in 1..Len(reprocessed'[1].calls)})]_vars

C25_Witness ==
  /\ Len(capturedMedia) = 2
  /\ capturedMedia[1].id \in NewIds
  /\ capturedMedia[1].indexedDbId # None
  /\ tasks[capturedMedia[1].id].pc = "caught"
  /\ capturedMedia[1].geminiAnalysis[1].error = Some(ProcessingFailed)
  /\ capturedMedia[2].id \in LegacyIds
  /\ reprocessed # None
  /\ reprocessed[1].count = 1
  /\ capturedMedia[2].geminiAnalysis[1].pushupData # None

\* C26: no two records of the in-memory collection have the same id, however
\* the initial load interleaves with adding, removing and clearing.
C26_IdsAreUnique ==
  \A i, j \in 1..Len(capturedMedia) :
    capturedMedia[i].id = capturedMedia[j].id => i = j

C26_Witness ==
  /\ Len(capturedMedia) = 2
  /\ Len(restoredMedia) = 2
  /\ \E i \in 1..2 : restoredMedia[i].id \in NewIds
  /\ \E i \in 1..2 : capturedMedia[i].id \in NewIds

\* C27: apart from the load replacing the collection, once the annotation of an
\* in-memory record has a structured value, the value stays what it is for as
\* long as the record is in memory: no later step of processVideoWithGemini and
\* no reprocessing changes or removes it.
C27_StructuredValueIsKept ==
  [][~(loadPhase = "loading" /\ loadPhase' # "loading")
       => \A id \in Ids :
            LET a == AnalysisIn(capturedMedia, id)
                b == AnalysisIn(capturedMedia', id)
            IN (a # None /\ a[1].pushupData # None /\ PositionsOf(capturedMedia', id) # {})
                 => /\ b # None
                    /\ b[1].pushupData = a[1].pushupData]_vars

\* The catch block and the reprocess timer have both run over records that had
\* a structured value.
C27_Witness ==
  \E id \in NewIds :
    /\ tasks[id].pc = "caught"
    /\ InMemory(id)
    /\ AnalysisIn(capturedMedia, id)[1].pushupData # None
    /\ AnalysisIn(capturedMedia, id)[1].error = Some(ProcessingFailed)
    /\ reprocessed # None
    /\ \E old \in LegacyIds :
         /\ InMemory(old)
         /\ AnalysisIn(capturedMedia, old) # None
         /\ AnalysisIn(capturedMedia, old)[1].pushupData # None

\* C28: the reprocessing run by the timer, over the array restored at load
\* time, never updates a record whose annotation is pending in memory or whose
\* processVideoWithGemini call has not finished: a record's annotation never
\* has two writers at a time.
C28_ReprocessSkipsPending ==
  [][ReprocessTimer =>
       \A c \in 1..Len(reprocessed'[1].calls) :
         LET id == reprocessed'[1].calls[c]
         IN /\ id \in NewIds => tasks[id].pc \notin {"inflight", "storing"}
            /\ InMemory(id) => ~AnalysisIn(capturedMedia, id)[1].isProcessing]_vars

\* The timer's run updated a record while another record of the restored array
\* was pending, its provider call still under way.
C28_Witness ==
  /\ reprocessed # None
  /\ reprocessed[1].count = 1
  /\ \E id \in NewIds :
       /\ id \in RestoredIds
       /\ tasks[id].pc = "inflight"
       /\ InMemory(id)
       /\ AnalysisIn(capturedMedia, id)[1].isProcessing
       /\ \A c \in 1..Len(reprocessed[1].calls) : reprocessed[1].calls[c] # id

KeyIn(list, id) ==
  list[CHOOSE i \in PositionsOf(list, id) : \A j \in PositionsOf(list, id) : i <= j].indexedDbId

\* C29: a record gets its storage key when addMedia's store put succeeds or
\* when the load restores it, and gets none when the put fails; records come
\* into memory in no other way, and the key of a record in memory never changes.
C29_StorageKeyFromPutOrLoad ==
  [][/\ (\E type \in {"photo", "video"} : AddMediaStored(type))
          => Head(capturedMedia').indexedDbId = Some(Head(capturedMedia').id)
     /\ (\E type \in {"photo", "video"} : AddMediaUnstored(type))
          => Head(capturedMedia').indexedDbId = None
     /\ (LoadReturns /\ loadPhase' = "timer")
          => \A i \in 1..Len(capturedMedia') :
               capturedMedia'[i].indexedDbId = Some(capturedMedia'[i].id)
     /\ \A id \in Ids :
          /\ (PositionsOf(capturedMedia, id) # {} /\ PositionsOf(capturedMedia', id) # {})
               => KeyIn(capturedMedia', id) = KeyIn(capturedMedia, id)
          /\ (PositionsOf(capturedMedia, id) = {} /\ PositionsOf(capturedMedia', id) # {})
               => \/ LoadReturns
                  \/ \E type \in {"photo", "video"} :
                       AddMediaStored(type) \/ AddMediaUnstored(type)]_vars

\* A restored record with its key next to a record whose put failed, without one.
C29_Witness ==
  /\ Len(capturedMedia) = 2
  /\ capturedMedia[1].id \in NewIds
  /\ capturedMedia[1].indexedDbId = None
  /\ capturedMedia[1].id \notin DOMAIN store
  /\ capturedMedia[2].id \in RestoredIds
  /\ capturedMedia[2].indexedDbId = Some(capturedMedia[2].id)

\* The state currentTime is within two seconds of the best rep, both ends included.
NearBestRep ==
  /\ overlay.bestRep # None
  /\ overlay.currentTime - overlay.bestRep[1] \in -2..2

\* C30 as stated: the best-rep indicator is shown exactly when there is a best
\* rep and the state currentTime is within two seconds of it.
C30_ShownExactlyNearBestRep ==
  BestRepShown(overlay) <=> NearBestRep

\* C30: while the overlay is visible, the best-rep indicator is shown exactly
\* when there is a best rep and bestRep.timestampSeconds - 2 <= currentTime <=
\* bestRep.timestampSeconds + 2; the hidden overlay does not show it. The state
\* currentTime is the time the video reported at the last time-update handled
\* (0 before the first).
C30_ShownNearBestRepWhileVisible ==
  /\ [](BestRepShown(overlay) <=> (overlay.isVisible /\ NearBestRep))
  /\ [][IF handleTimeUpdate THEN overlay'.currentTime = overlay.videoTime
                            ELSE overlay'.currentTime = overlay.currentTime]_vars

\* The indicator is shown at the very end of the window.
C30_Witness ==
  /\ overlay.isVisible
  /\ overlay.bestRep = Some(0)
  /\ overlay.used # None
  /\ overlay.currentTime = 2
  /\ overlay.videoTime = 2
  /\ BestRepShown(overlay)

\* C31: every in-memory annotation is well-formed: a pending one has an empty
\* text, no structured value and no failure reason; one with a structured value
\* is not pending and has a non-empty text; a non-empty text and a failure
\* reason never go together.
C31_AnnotationsWellFormed ==
  \A i \in 1..Len(capturedMedia) :
    LET ga == capturedMedia[i].geminiAnalysis
    IN ga # None =>
         /\ ga[1].isProcessing =>
              (ga[1].result = EmptyText /\ ga[1].pushupData = None /\ ga[1].error = None)
         /\ ga[1].pushupData # None => (~ga[1].isProcessing /\ ga[1].result # EmptyText)
         /\ ~(ga[1].result # EmptyText /\ ga[1].error # None)

\* C32: once a record was removed and its store delete has taken effect, the
\* store holds no record with its id any more, also when the provider call that
\* was under way at the removal completes afterwards: the completion of
\* processVideoWithGemini does not put the record back.
C32_RemovedStaysDeleted ==
  [][\A id \in NewIds :
       (/\ store' # store
        /\ id \in removedInFlight
        /\ ~InMemory(id)
        /\ id \notin pendingDeletes
        /\ id \notin DOMAIN store
        /\ AnalysisStored(id))
         => id \notin DOMAIN store']_vars

\* C33: when every store operation returns, an in-memory annotation that is
\* pending is eventually no longer pending, or its record leaves the memory;
\* so for the records the load restores with a pending annotation.
C33_PendingIsResolved ==
  \A id \in LegacyIds :
    (InMemory(id) /\ AnalysisIn(capturedMedia, id) # None
       /\ AnalysisIn(capturedMedia, id)[1].isProcessing)
      ~> (~InMemory(id) \/ AnalysisIn(capturedMedia, id) = None
            \/ ~AnalysisIn(capturedMedia, id)[1].isProcessing)

\* C34: a record addMedia has put into memory stays in memory until
\* removeMedia is called with its id or clearAllMedia is called, also when the
\* load returns after the add.
C34_AddedStaysUntilRemoved ==
  [][\A id \in NewIds :
       (/\ capturedMedia' # capturedMedia
        /\ InMemory(id)
        /\ PositionsOf(capturedMedia', id) = {})
         => \/ RemoveMedia(id)
            \/ \E cleared \in BOOLEAN : ClearAllMedia(cleared)]_vars

\* The call of processVideoWithGemini for the record is under way.
Outstanding(id) == tasks'[id].pc \in {"inflight", "storing"}

C36_UnstoredIsAsPassed ==
  \A i \in 1..Len(capturedMedia) :
    LET m == capturedMedia[i]
    IN m.indexedDbId = None =>
         /\ m = createMediaFromBlob(m.id, m.type, m.timestamp)
         /\ m.geminiAnalysis = None
         /\ m.id \in NewIds
         /\ tasks[m.id].pc = "idle"
         /\ submitted[m.id] = 0

\* A video whose put failed, with the provider configured.
C36_Witness ==
  /\ configured
  /\ \E i \in 1..Len(capturedMedia) :
       /\ capturedMedia[i].type = "video"
       /\ capturedMedia[i].indexedDbId = None
       /\ capturedMedia[i].geminiAnalysis = None
       /\ capturedMedia[i].id \notin DOMAIN store

\* C37: when the provider reports success with an empty text,
\* processVideoWithGemini takes its failure branch: the in-memory annotation
\* (of a record still in memory, not re-created from the store by the load) is
\* no longer pending, has the failure reason 'Analysis failed', an empty text
\* and no structured value; the call ends there, and the stored copy is left as
\* addMedia wrote it.
C37_EmptyTextIsFailure ==
  \A id \in NewIds :
    (tasks[id].result = Some(Success(EmptyText)))
      => /\ tasks[id].pc = "done"
         /\ id \in DOMAIN store =>
              store[id].geminiAnalysis = tasks[id].media[1].geminiAnalysis
         /\ (InMemory(id) /\ id \notin RestoredIds) =>
              LET a == AnalysisIn(capturedMedia, id)
              IN /\ a # None
                 /\ ~a[1].isProcessing
                 /\ a[1].error = Some(AnalysisFailed)
                 /\ a[1].result = EmptyText
                 /\ a[1].pushupData = None

C37_Witness ==
  \E id \in NewIds :
    /\ tasks[id].result = Some(Success(EmptyText))
    /\ InMemory(id)
    /\ id \notin RestoredIds
    /\ id \in DOMAIN store
    /\ store[id].geminiAnalysis[1].isProcessing
    /\ AnalysisIn(capturedMedia, id)[1].error = Some(AnalysisFailed)

C39_ReadyUntilCause ==
  [][(/\ camera.cameraStatus = "ready"
      /\ camera.mediaStream # None
      /\ \/ camera'.cameraStatus # "ready"
         \/ \E i \in DOMAIN camera.mediaStream :
              camera.mediaStream[i] \in camera.running \ camera'.running)
     => \/ camera'.facing # camera.facing
        \/ camera'.selectedDeviceId # camera.selectedDeviceId
        \/ \E i \in DOMAIN camera.initDeps :
             \/ camera.initDeps[i][1] # camera.facing
             \/ camera.initDeps[i][2] # camera.selectedDeviceId
        \/ camera'.hidden /\ ~camera.hidden
        \/ camera'.cameraStatus = "error"]_vars

====
